---- MODULE Spec2Model ----
(***************************************************************************)
(* Dynamic Context Pruning plugin: the idle-triggered analysis pass        *)
(* (Janitor.run), the prune state store, the two request rewriters (the    *)
(* per-session fetch wrapper of src/index.ts and the global fetch wrapper  *)
(* of src/unnamed/part_006), the subagent check, the pruning tool, the     *)
(* tool result tracker with its three format adapters                      *)
(* (src/lib/synth-instruction.ts) and the squash tool                      *)
(* (src/unnamed/part_003).                                                 *)
(*                                                                         *)
(* The plugin runs on one event loop: every action below is one stretch of *)
(* code between two suspension points (await).                             *)
(***************************************************************************)
EXTENDS Integers, Sequences, FiniteSets, Bags, TLC

(***************************************************************************)
(* Bounds of the model.                                                    *)
(***************************************************************************)
\* Analysis passes that can be in flight at the same time.
MaxPasses == 2
\* Ids one decision call returns at most.
MaxDecision == 2
\* Ranges the squash tool records at most.
MaxSquash == 2
\* Ranges squashed at most while every other handler runs as well.
MaxFrameSquash == 1
\* Ids the tracker holds at most when a content/parts request is scanned.
MaxSeen == 4

\* Nudge turns one request body takes at most.
MaxNudges == 2

\* Parts of the transcript one analysis is given at most.
MaxParts == 4

\* MAX_TOOL_CACHE_SIZE, which is 500 in the program, scaled down.
MAX_TOOL_CACHE_SIZE == 2

(***************************************************************************)
(* Call ids.  An id is a sequence of tokens (a prefix and a suffix), so    *)
(* that lowercasing and the prefix test are computed, not assumed.         *)
(***************************************************************************)
NoId == << >>

\* String.prototype.toLowerCase on one token.
LowerTok(t) ==
    CASE t = "A" -> "a"
      [] t = "S" -> "s"
      [] t = "O" -> "o"
      [] t = "B" -> "b"
      [] t = "P" -> "p"
      [] t = "Q" -> "q"
      [] t = "CALL_" -> "call_"
      [] t = "TOOLU_" -> "toolu_"
      [] t = "Read" -> "read"
      [] t = "PRT_" -> "prt_"
      [] t = "Anthropic" -> "anthropic"
      [] OTHER -> t

\* part.callID.toLowerCase(), m.tool_call_id?.toLowerCase(), prunedId.toLowerCase()
toLowerCase(id) == [i \in DOMAIN id |-> LowerTok(id[i])]

\* normalizedId.startsWith('prt_')
startsWithPrt(id) == Len(id) > 0 /\ id[1] = "prt_"

(***************************************************************************)
(* The host: sessions and their canonical transcripts.                     *)
(***************************************************************************)
Sessions == {"ses_main", "ses_sub"}

\* allSessions.data: what session.list() returns, in its order.  Besides
\* the two sessions above the host holds a second top-level session.
allSessions == << "ses_main", "ses_sub", "ses_old" >>

\* Every session the host holds.
Hosted == {allSessions[i] : i \in DOMAIN allSessions}

\* result.data?.parentID as the host records it ("" = none).
ParentID(s) == IF s = "ses_sub" THEN "ses_main" ELSE ""

\* config.protectedTools (defaultConfig)
protectedTools == {"task"}

TextPart == [type |-> "text", callID |-> NoId, tool |-> ""]
ToolPart(id, t) == [type |-> "tool", callID |-> id, tool |-> t]

\* The messages the host will have produced for each session, in emission
\* order; each message is the sequence of its parts.
Script(s) ==
    IF s = "ses_main"
    THEN << << TextPart >>,
            << ToolPart(<<"call_", "A">>, "read") >>,
            << ToolPart(<<"batch_", "1">>, "batch"),
               ToolPart(<<"prt_", "1">>, "read"),
               ToolPart(<<"prt_", "2">>, "task") >> >>
    ELSE IF s = "ses_sub"
    THEN << << TextPart >>,
            << TextPart >>,
            << ToolPart(<<"call_", "S">>, "read") >> >>
    ELSE << << TextPart >>,
            << ToolPart(<<"call_", "O">>, "read") >>,
            << TextPart >> >>

\* Messages a session has when the model starts.
InitialMessages(s) == IF s = "ses_main" THEN 2 ELSE 3

RECURSIVE Flatten(_, _)
Flatten(msgs, n) ==
    IF n = 0 THEN << >> ELSE Flatten(msgs, n - 1) \o msgs[n]

\* The parts of the first n messages of each session, in emission order
\* (tabulated once).
Transcripts ==
    [s \in Hosted |-> [n \in 0 .. Len(Script(s)) |-> Flatten(Script(s), n)]]

PartsOf(s, n) == Transcripts[s][n]

\* Every call id the host ever emits for s, as emitted.
RawIds(s) ==
    LET ps == PartsOf(s, Len(Script(s)))
    IN  {ps[i].callID : i \in {j \in DOMAIN ps : ps[j].type = "tool"}}

NormIds(s) == {toLowerCase(id) : id \in RawIds(s)}

(***************************************************************************)
(* Janitor.run: the synchronous computations of one analysis pass.         *)
(***************************************************************************)
\* toolCallIds: the normalized id of every tool part, in emission order.
RECURSIVE toolCallIds(_)
toolCallIds(parts) ==
    IF parts = << >> THEN << >>
    ELSE LET rest == toolCallIds(Tail(parts))
             part == Head(parts)
         IN  IF part.type = "tool" /\ part.callID # NoId
             THEN << toLowerCase(part.callID) >> \o rest
             ELSE rest

\* toolMetadata.get(id)?.tool: the tool name of the last part with that id
\* ("" when the id was not observed).
RECURSIVE toolMetadata(_, _)
toolMetadata(parts, id) ==
    IF parts = << >> THEN ""
    ELSE LET part == parts[Len(parts)]
         IN  IF part.type = "tool" /\ part.callID # NoId
                /\ toLowerCase(part.callID) = id
             THEN part.tool
             ELSE toolMetadata(SubSeq(parts, 1, Len(parts) - 1), id)

\* A scan that never closes a group: a prefixed id is a child of the last
\* batch tool, whatever came between.
RECURSIVE batchScanNeverClosing(_, _, _, _)
batchScanNeverClosing(parts, i, cur, ch) ==
    IF i > Len(parts) THEN ch
    ELSE IF ~(parts[i].type = "tool" /\ parts[i].callID # NoId)
    THEN batchScanNeverClosing(parts, i + 1, cur, ch)
    ELSE LET normalizedId == toLowerCase(parts[i].callID)
         IN  IF parts[i].tool = "batch"
             THEN batchScanNeverClosing(parts, i + 1, normalizedId,
                                        (normalizedId :> << >>) @@ ch)
             ELSE IF cur # NoId /\ startsWithPrt(normalizedId)
             THEN batchScanNeverClosing(parts, i + 1, cur,
                                        [ch EXCEPT ![cur] = Append(@, normalizedId)])
             ELSE batchScanNeverClosing(parts, i + 1, cur, ch)

\* The batch-detection loop from part i on: cur is currentBatchId (NoId for
\* null), ch is batchToolChildren (batch id -> sequence of child ids).
RECURSIVE batchScan(_, _, _, _)
batchScan(parts, i, cur, ch) ==
    IF i > Len(parts) THEN ch
    ELSE IF ~(parts[i].type = "tool" /\ parts[i].callID # NoId)
    THEN batchScan(parts, i + 1, cur, ch)
    ELSE LET normalizedId == toLowerCase(parts[i].callID)
         IN  IF parts[i].tool = "batch"
             THEN batchScan(parts, i + 1, normalizedId,
                            (normalizedId :> << >>) @@ ch)
             ELSE IF cur # NoId /\ startsWithPrt(normalizedId)
             THEN batchScan(parts, i + 1, cur,
                            [ch EXCEPT ![cur] = Append(@, normalizedId)])
             ELSE IF cur # NoId /\ ~startsWithPrt(normalizedId)
             THEN batchScan(parts, i + 1, NoId, ch)
             ELSE batchScan(parts, i + 1, cur, ch)

\* batchToolChildren as the pass holds it after the loop over the parts.
batchToolChildren(parts) == batchScan(parts, 1, NoId, << >>)

Range(seq) == {seq[i] : i \in DOMAIN seq}

\* unprunedToolCallIds = toolCallIds.filter(id => !alreadyPrunedIds.includes(id))
unprunedToolCallIds(parts, alreadyPrunedIds) ==
    SelectSeq(toolCallIds(parts), LAMBDA id : id \notin alreadyPrunedIds)

\* Candidates that leave the protected tools in.
prunableWithProtected(parts, alreadyPrunedIds) ==
    unprunedToolCallIds(parts, alreadyPrunedIds)

\* prunableToolCallIds: the unpruned ids whose tool is not protected.
prunableToolCallIds(parts, alreadyPrunedIds) ==
    SelectSeq(unprunedToolCallIds(parts, alreadyPrunedIds),
              LAMBDA id : toolMetadata(parts, id) \notin protectedTools)

\* The children the expansion adds for one returned id.
childrenOf(ch, normalizedId) ==
    IF normalizedId \in DOMAIN ch THEN Range(ch[normalizedId]) ELSE {}

\* An expansion that forgets the children of a batch tool.
expandedWithoutChildren(decision, ch) == {toLowerCase(id) : id \in decision}

\* An expansion that takes in the children of every batch tool it knows.
expandedWithEveryChild(decision, ch) ==
    {toLowerCase(id) : id \in decision}
        \cup UNION {Range(ch[b]) : b \in DOMAIN ch}

\* expandedPrunedIds: the lowercased returned ids and, for each that is a
\* batch tool, its children.
expandedPrunedIds(decision, ch) ==
    {toLowerCase(id) : id \in decision}
        \cup UNION {childrenOf(ch, toLowerCase(id)) : id \in decision}

\* A delta that reports every expanded id as newly pruned.
newlyPrunedIdsAll(expanded, alreadyPrunedIds) == expanded

\* newlyPrunedIds = expanded ids that are not already pruned.
newlyPrunedIds(expanded, alreadyPrunedIds) == expanded \ alreadyPrunedIds

\* A merge that stores the decision's ids in place of those already pruned.
allPrunedIdsReplaced(alreadyPrunedIds, finalPrunedIds) == finalPrunedIds

\* A merge that stores only the newly pruned ids.
allPrunedIdsNewOnly(alreadyPrunedIds, finalPrunedIds) ==
    finalPrunedIds \ alreadyPrunedIds

\* allPrunedIds = [...new Set([...alreadyPrunedIds, ...finalPrunedIds])]
allPrunedIds(alreadyPrunedIds, finalPrunedIds) ==
    alreadyPrunedIds \cup finalPrunedIds

(***************************************************************************)
(* Outbound request bodies and the two rewriters.                          *)
(***************************************************************************)
Placeholder ==
    << "[Output removed to save context - information superseded or no longer needed]" >>

\* The chat-completions entries the host sends for one transcript message: a
\* user entry for a message without tool parts, otherwise the assistant entry
\* followed by one role=tool entry per tool part, carrying the call id as the
\* host emitted it.
RECURSIVE ToolEntries(_)
ToolEntries(parts) ==
    IF parts = << >> THEN << >>
    ELSE IF Head(parts).type = "tool"
    THEN << [role |-> "tool", tool_call_id |-> Head(parts).callID,
             name |-> Head(parts).tool, content |-> << "output" >>] >>
         \o ToolEntries(Tail(parts))
    ELSE ToolEntries(Tail(parts))

WireMessage(parts) ==
    IF ToolEntries(parts) = << >>
    THEN << [role |-> "user", tool_call_id |-> NoId, name |-> "",
             content |-> << "text" >>] >>
    ELSE << [role |-> "assistant", tool_call_id |-> NoId, name |-> "",
             content |-> << "calls" >>] >> \o ToolEntries(parts)

RECURSIVE WireBody(_, _)
WireBody(msgs, n) ==
    IF n = 0 THEN << >> ELSE WireBody(msgs, n - 1) \o WireMessage(msgs[n])

\* A rewriter that drops the pruned entries instead of replacing them.
mapPrunedSessionDropping(messages, prunedIds) ==
    SelectSeq(messages,
              LAMBDA m : ~(m.role = "tool" /\ m.tool_call_id \in prunedIds))

\* body.messages.map(...) of the per-session wrapper: the id is compared as
\* it is on the wire (prunedIds.includes(m.tool_call_id)).
mapPrunedSession(messages, prunedIds) ==
    [i \in DOMAIN messages |->
        IF messages[i].role = "tool" /\ messages[i].tool_call_id \in prunedIds
        THEN [messages[i] EXCEPT !.content = Placeholder]
        ELSE messages[i]]

\* body.messages.map(...) of the global wrapper: the id is lowercased first
\* (allPrunedIds.has(m.tool_call_id?.toLowerCase())).
mapPrunedGlobal(messages, allPruned) ==
    [i \in DOMAIN messages |->
        IF messages[i].role = "tool"
           /\ toLowerCase(messages[i].tool_call_id) \in allPruned
        THEN [messages[i] EXCEPT !.content = Placeholder]
        ELSE messages[i]]

\* The per-session wrapper as a whole: filtering is attempted only when there
\* are pruned ids, and the body is replaced only when an entry was replaced.
rewriteSession(messages, prunedIds) ==
    IF prunedIds # {} THEN mapPrunedSession(messages, prunedIds) ELSE messages

\* The global wrapper as a whole: replacement is attempted only when the body
\* has tool messages and some id is pruned.
rewriteGlobal(messages, allPruned) ==
    IF (\E i \in DOMAIN messages : messages[i].role = "tool") /\ allPruned # {}
    THEN mapPrunedGlobal(messages, allPruned)
    ELSE messages

(***************************************************************************)
(* isSubagentSession: true when the lookup succeeds and the host records a *)
(* parent; a failed lookup is answered false (fail open).                  *)
(***************************************************************************)
\* A check that never detects a subagent session.
isSubagentSessionNever(s, lookupOk) == FALSE

isSubagentSession(s, lookupOk) == lookupOk /\ ParentID(s) # ""

(***************************************************************************)
(* State.                                                                  *)
(***************************************************************************)
VARIABLES
    nmsgs,      \* host: number of messages in each session's transcript
    store,      \* StateManager: session -> pruned ids held in memory
    passes,     \* the Janitor.run calls in flight (a bag of records)
    outcome,    \* what the step just taken handed over: the request given
                \* to the underlying fetch, the pruning tool's result, the
                \* write of a pass (the set it replaced, the set the pass
                \* had read, its expanded decision) or its failure; it is
                \* taken in the same synchronous stretch, before any other
                \* handler runs
    toolTracker, \* the plugin's ToolTracker (one per process)
    prune,      \* state.prune of the squash tool's session state
    collect,    \* the global fetch wrapper call that is suspended in its
                \* collection loop, if any
    request,    \* the parsed body of the outbound request the injection
                \* functions work on in place, if any
    toolParametersCache, \* index.ts: callID -> parameters, in insertion order
    stats,      \* state.stats of the squash tool's session state
    persisted,  \* storage: what the last completed save wrote
    pending,    \* storage operations in flight (a bag of records)
    state       \* the PluginState of src/lib/state/index.ts

\* What the injection and caching handlers work on.
requestVars == << request, toolParametersCache >>

\* What the squash tool keeps besides its prune lists, and the storage.
persistVars == << stats, persisted, pending >>

vars == << nmsgs, store, passes, outcome, toolTracker, prune, collect,
           requestVars, persistVars, state >>

\* The subagent check of s answered "not a subagent" only because the
\* lookup failed (the catch branch of isSubagentSession).
FailedOpen(s, lookupOk) == ~lookupOk /\ ParentID(s) # ""

\* A Janitor.run call in flight: where it is suspended (pc), its session,
\* the number of messages it retrieved, the alreadyPrunedIds it read, and
\* whether the check that let it start had failed open.
NewRun(s, failedOpen) ==
    [pc |-> "fetch", sid |-> s, n |-> 0, already |-> {}, failedOpen |-> failedOpen]

Nothing == [variant |-> "none"]

\* The calls in flight, as a set.
Running == BagToSet(passes)

\* The call r moves on to r2 / returns.
Continue(r, r2) == (passes (-) SetToBag({r})) (+) SetToBag({r2})
Returned(r) == passes (-) SetToBag({r})

\* What a pass that ended in its catch block hands over: nothing but the
\* log entry. step is the await that rejected, before is the session's
\* stored set when the rejection was delivered.
Caught(s, step) ==
    [variant |-> "failed", sid |-> s, step |-> step, before |-> store[s]]

\* What a pass that ends early hands over: the debug log entry only. why is
\* the test that ended it, before is the session's stored set at that time.
Skipped(s, why) ==
    [variant |-> "skipped", sid |-> s, why |-> why, before |-> store[s]]

\* stateManager.get(sessionID): the ids held for the session.
stateGet(s) == store[s]

\* stateManager.set(sessionID, ids): replaces the ids held for the session.
stateSet(s, ids) == [store EXCEPT ![s] = ids]

\* The lists a decision call can return: at most MaxDecision of the ids of
\* the session, as emitted or lowercased (tabulated once).
DecisionLists ==
    [s \in Hosted |->
        {d \in SUBSET (RawIds(s) \cup NormIds(s)) : Cardinality(d) <= MaxDecision}]

Decisions(s) == DecisionLists[s]

\* createToolTracker(): nothing seen, nothing counted, no skip, and no
\* getToolName member (getToolName records whether the member is set).
createToolTracker ==
    [seenToolResultIds |-> {}, toolResultCount |-> 0, skipNextIdle |-> FALSE,
     getToolName |-> FALSE]

\* The prune lists of a fresh session state: nothing squashed yet.
createSessionState ==
    [toolIds |-> << >>, messageIds |-> << >>, squashSummaries |-> << >>]

\* No global fetch wrapper call is suspended in its collection loop.
NotCollecting == [pc |-> "none"]

\* No outbound request is being worked on.
NoBody == [format |-> "none"]

\* The stats of a fresh session state.
createStats == [pruneTokenCounter |-> 0, totalPruneTokens |-> 0]

\* Nothing has been saved for the session.
NotPersisted == [saved |-> FALSE]

\* createPluginState(): empty maps and sets.  A map is its keys in
\* insertion order with the value of each key.
createPluginState ==
    [prunedIds |-> [keys |-> << >>, value |-> [s \in Hosted |-> << >>]],
     stats |-> [keys |-> << >>, value |-> [s \in Hosted |-> "none"]],
     restoredSessions |-> {},
     toolParameters |-> << >>]

Init ==
    /\ nmsgs = [s \in Hosted |-> InitialMessages(s)]
    /\ store = [s \in Hosted |-> {}]
    /\ passes = EmptyBag
    /\ outcome = Nothing
    /\ toolTracker = createToolTracker
    /\ prune = createSessionState
    /\ collect = NotCollecting
    /\ request = NoBody
    /\ toolParametersCache = << >>
    /\ stats = createStats
    /\ persisted = NotPersisted
    /\ pending = EmptyBag
    /\ state = createPluginState

(***************************************************************************)
(* The host appends the next message to a session's transcript.            *)
(***************************************************************************)
HostAppend(s) ==
    /\ outcome = Nothing
    /\ nmsgs[s] < Len(Script(s))
    /\ nmsgs' = [nmsgs EXCEPT ![s] = @ + 1]
    /\ outcome' = Nothing
    /\ UNCHANGED << store, passes >>
    /\ UNCHANGED << toolTracker, prune, collect >>
    /\ UNCHANGED << requestVars, persistVars, state >>

\* An event hook that waits for the pass and hands its result on: the pass
\* has written when the hook returns.
IdleEventAwaiting(s, lookupOk) ==
    /\ outcome = Nothing
    /\ ~isSubagentSession(s, lookupOk)
    /\ store' = stateSet(s, stateGet(s) \cup {<< "call_", "a" >>})
    /\ UNCHANGED << nmsgs, passes, outcome >>
    /\ UNCHANGED << toolTracker, prune, collect >>
    /\ UNCHANGED << requestVars, persistVars, state >>

(***************************************************************************)
(* event hook: a session.status idle event.  After the subagent check the  *)
(* janitor is started and not awaited.                                     *)
(***************************************************************************)
IdleEvent(s, lookupOk) ==
    /\ outcome = Nothing
    /\ IF isSubagentSession(s, lookupOk)
       THEN UNCHANGED passes
       ELSE /\ BagCardinality(passes) < MaxPasses
            /\ passes' = passes (+) SetToBag({NewRun(s, FailedOpen(s, lookupOk))})
    /\ UNCHANGED << nmsgs, store, outcome >>
    /\ UNCHANGED << toolTracker, prune, collect >>
    /\ UNCHANGED << requestVars, persistVars, state >>

(***************************************************************************)
(* Janitor.run, one action per stretch between awaits.                     *)
(***************************************************************************)
\* await Promise.all([session.get, session.messages]) settles.
RunFetch(r, ok) ==
    /\ outcome = Nothing
    /\ BagIn(r, passes) /\ r.pc = "fetch"
    /\ passes' = IF ~ok \/ nmsgs[r.sid] < 3 THEN Returned(r)
                 ELSE Continue(r, [r EXCEPT !.pc = "read", !.n = nmsgs[r.sid]])
    /\ outcome' = IF ~ok THEN Caught(r.sid, "fetch")
                  ELSE IF nmsgs[r.sid] < 3 THEN Skipped(r.sid, "messages")
                  ELSE Nothing
    /\ UNCHANGED << nmsgs, store >>
    /\ UNCHANGED << toolTracker, prune, collect >>
    /\ UNCHANGED << requestVars, persistVars, state >>

\* A pass that goes on to the decision call whatever candidates remain.
RunReadAnalysing(r) ==
    /\ outcome = Nothing
    /\ BagIn(r, passes) /\ r.pc = "read"
    /\ passes' = Continue(r, [r EXCEPT !.pc = "analyse",
                                       !.already = stateGet(r.sid)])
    /\ UNCHANGED << nmsgs, store, outcome >>
    /\ UNCHANGED << toolTracker, prune, collect >>
    /\ UNCHANGED << requestVars, persistVars, state >>

\* A pass that gives up once the session has stored ids.
RunReadOnlyFresh(r) ==
    /\ outcome = Nothing
    /\ BagIn(r, passes) /\ r.pc = "read"
    /\ IF stateGet(r.sid) # {}
       THEN /\ passes' = Returned(r)
            /\ outcome' = Skipped(r.sid, "candidates")
       ELSE /\ passes' = Continue(r, [r EXCEPT !.pc = "analyse",
                                               !.already = stateGet(r.sid)])
            /\ outcome' = Nothing
    /\ UNCHANGED << nmsgs, store >>
    /\ UNCHANGED << toolTracker, prune, collect >>
    /\ UNCHANGED << requestVars, persistVars, state >>

\* await stateManager.get settles; candidates are filtered.
RunRead(r) ==
    /\ outcome = Nothing
    /\ BagIn(r, passes) /\ r.pc = "read"
    /\ LET alreadyPrunedIds == stateGet(r.sid)
       IN  IF prunableToolCallIds(PartsOf(r.sid, r.n), alreadyPrunedIds) = << >>
           THEN /\ passes' = Returned(r)
                /\ outcome' = Skipped(r.sid, "candidates")
           ELSE /\ passes' = Continue(r, [r EXCEPT !.pc = "analyse",
                                                   !.already = alreadyPrunedIds])
                /\ outcome' = Nothing
    /\ UNCHANGED << nmsgs, store >>
    /\ UNCHANGED << toolTracker, prune, collect >>
    /\ UNCHANGED << requestVars, persistVars, state >>

\* await selectModel rejects (every fallback failed): caught, logged.
RunSelectFail(r) ==
    /\ outcome = Nothing
    /\ BagIn(r, passes) /\ r.pc = "analyse"
    /\ passes' = Returned(r)
    /\ outcome' = Caught(r.sid, "select")
    /\ UNCHANGED << nmsgs, store >>
    /\ UNCHANGED << toolTracker, prune, collect >>
    /\ UNCHANGED << requestVars, persistVars, state >>

\* The batch relation a pass collects from the first n messages of a
\* session (tabulated once).
CollectedChildren ==
    [s \in Hosted |->
        [n \in 0 .. Len(Script(s)) |-> batchToolChildren(PartsOf(s, n))]]

\* The batch relation the pass r collected.
passChildren(r) == CollectedChildren[r.sid][r.n]

\* The ids held, at one instant, for all sessions the host lists without a
\* parent, when the store is st.
heldForTopLevel(st) == UNION {st[x] : x \in {y \in Hosted : ParentID(y) = ""}}

\* While a global fetch wrapper call is suspended in its collection loop,
\* collect.instants keeps every value heldForTopLevel has had since the call
\* began (a history field: no code reads it).
Observed(st) ==
    IF collect.pc = "none" THEN collect
    ELSE [collect EXCEPT !.instants = @ \cup {heldForTopLevel(st)}]

\* await selectModel and await generateObject settle with a decision:
\* expand, merge, set; a toast follows when something is newly pruned.
RunDecide(r, decision) ==
    /\ outcome = Nothing
    /\ BagIn(r, passes) /\ r.pc = "analyse"
    /\ LET expanded == expandedPrunedIds(decision, passChildren(r))
           final == allPrunedIds(r.already, expanded)
       IN  /\ store' = stateSet(r.sid, final)
           /\ outcome' = [variant |-> "write", sid |-> r.sid,
                          before |-> store[r.sid], already |-> r.already,
                          expanded |-> expanded,
                          newly |-> newlyPrunedIds(expanded, r.already),
                          failedOpen |-> r.failedOpen]
           /\ passes' = IF newlyPrunedIds(expanded, r.already) # {}
                        THEN Continue(r, [NewRun(r.sid, r.failedOpen)
                                              EXCEPT !.pc = "toast"])
                        ELSE Returned(r)
           /\ collect' = Observed(stateSet(r.sid, final))
    /\ UNCHANGED nmsgs
    /\ UNCHANGED << toolTracker, prune >>
    /\ UNCHANGED << requestVars, persistVars, state >>

\* A catch block that stores before it returns: a partial write on failure.
RunDecideFailStoring(r) ==
    /\ outcome = Nothing
    /\ BagIn(r, passes) /\ r.pc = "analyse"
    /\ store' = stateSet(r.sid, r.already \cup {<<"partial">>})
    /\ passes' = Returned(r)
    /\ outcome' = Caught(r.sid, "decide")
    /\ UNCHANGED nmsgs
    /\ UNCHANGED << toolTracker, prune, collect >>
    /\ UNCHANGED << requestVars, persistVars, state >>

\* await generateObject rejects: caught, logged, nothing stored.
RunDecideFail(r) ==
    /\ outcome = Nothing
    /\ BagIn(r, passes) /\ r.pc = "analyse"
    /\ passes' = Returned(r)
    /\ outcome' = Caught(r.sid, "decide")
    /\ UNCHANGED << nmsgs, store >>
    /\ UNCHANGED << toolTracker, prune, collect >>
    /\ UNCHANGED << requestVars, persistVars, state >>

\* await client.tui.showToast settles (a failure is caught and logged).
RunToast(r) ==
    /\ outcome = Nothing
    /\ BagIn(r, passes) /\ r.pc = "toast"
    /\ passes' = Returned(r)
    /\ UNCHANGED << nmsgs, store, outcome >>
    /\ UNCHANGED << toolTracker, prune, collect >>
    /\ UNCHANGED << requestVars, persistVars, state >>

(***************************************************************************)
(* Outbound requests.                                                      *)
(***************************************************************************)
\* The body the host sends for a session of n messages (tabulated once).
Bodies ==
    [s \in Hosted |-> [n \in 0 .. Len(Script(s)) |-> WireBody(Script(s), n)]]

\* The body the host sends for s now.
RequestBody(s) == Bodies[s][nmsgs[s]]

\* The ids the global wrapper collects: every session the host lists
\* without a parent contributes its stored ids.
collectAllPrunedIds ==
    UNION {stateGet(x) : x \in {y \in Hosted : ParentID(y) = ""}}

\* chat.params hook and the fetch wrapper it installs (src/index.ts): a
\* detected subagent session gets no wrapper; otherwise the wrapper reads
\* the session's pruned ids, rewrites, and calls the existing fetch.
ChatRequest(s, lookupOk) ==
    /\ outcome = Nothing
    /\ outcome' =
           IF isSubagentSession(s, lookupOk)
           THEN [variant |-> "plain", sid |-> s, orig |-> RequestBody(s),
                 body |-> RequestBody(s), pruned |-> {}]
           ELSE [variant |-> "session", sid |-> s, orig |-> RequestBody(s),
                 body |-> rewriteSession(RequestBody(s), stateGet(s)),
                 pruned |-> stateGet(s),
                 failedOpen |-> FailedOpen(s, lookupOk)]
    /\ UNCHANGED << nmsgs, store, passes >>
    /\ UNCHANGED << toolTracker, prune, collect >>
    /\ UNCHANGED << requestVars, persistVars, state >>

\* globalThis.fetch wrapper (src/unnamed/part_006): every request body with
\* messages is rewritten against the ids of all non-subagent sessions; when
\* session.list() throws, the request is forwarded unchanged.
GlobalFetch(s, listOk) ==
    /\ outcome = Nothing
    /\ outcome' =
           IF listOk
           THEN [variant |-> "global", sid |-> s, orig |-> RequestBody(s),
                 body |-> rewriteGlobal(RequestBody(s), collectAllPrunedIds),
                 pruned |-> collectAllPrunedIds]
           ELSE [variant |-> "plain", sid |-> s, orig |-> RequestBody(s),
                 body |-> RequestBody(s), pruned |-> {}]
    /\ UNCHANGED << nmsgs, store, passes >>
    /\ UNCHANGED << toolTracker, prune, collect >>
    /\ UNCHANGED << requestVars, persistVars, state >>

(***************************************************************************)
(* createPruningTool.execute: the subagent check, then janitor.runForTool. *)
(***************************************************************************)
PruneTool(s, lookupOk) ==
    /\ outcome = Nothing
    /\ outcome' = [variant |-> "tool", sid |-> s,
                   ran |-> ~isSubagentSession(s, lookupOk),
                   failedOpen |-> FailedOpen(s, lookupOk)]
    /\ UNCHANGED << nmsgs, store, passes >>
    /\ UNCHANGED << toolTracker, prune, collect >>
    /\ UNCHANGED << requestVars, persistVars, state >>

\* What was handed over has been taken: the underlying fetch has the
\* request, the agent the tool's result, the log the entry.
Taken ==
    /\ outcome # Nothing
    /\ outcome' = Nothing
    /\ UNCHANGED << nmsgs, store, passes >>
    /\ UNCHANGED << toolTracker, prune, collect >>
    /\ UNCHANGED << requestVars, persistVars, state >>

Next ==
    \/ \E s \in Sessions : HostAppend(s)
    \/ \E s \in Sessions, lookupOk \in BOOLEAN : IdleEvent(s, lookupOk)
    \/ \E r \in Running, ok \in BOOLEAN : RunFetch(r, ok)
    \/ \E r \in Running : RunRead(r)
    \/ \E r \in Running : RunSelectFail(r)
    \/ \E r \in Running : \E decision \in Decisions(r.sid) : RunDecide(r, decision)
    \/ \E r \in Running : RunDecideFail(r)
    \/ \E r \in Running : RunToast(r)
    \/ \E s \in Sessions, lookupOk \in BOOLEAN : ChatRequest(s, lookupOk)
    \/ \E s \in Sessions, listOk \in BOOLEAN : GlobalFetch(s, listOk)
    \/ \E s \in Sessions, lookupOk \in BOOLEAN : PruneTool(s, lookupOk)
    \/ Taken

Spec == Init /\ [][Next]_vars

(***************************************************************************)
(* The global fetch wrapper, one action per stretch between its awaits,    *)
(* with two top-level sessions writing their prune state meanwhile.        *)
(***************************************************************************)
\* The position in allSessions.data, from i on, of the next session without
\* a parent (sessions with a parent are skipped by continue); 0 when the
\* loop is over.
RECURSIVE nextTopLevel(_)
nextTopLevel(i) ==
    IF i > Len(allSessions) THEN 0
    ELSE IF ParentID(allSessions[i]) # "" THEN nextTopLevel(i + 1)
    ELSE i

\* await ctx.client.session.list() settles with the sessions: the loop
\* starts and suspends in the first await stateManager.get.
GlobalFetchList(s) ==
    /\ outcome = Nothing
    /\ collect.pc = "none"
    /\ collect' = [pc |-> "get", sid |-> s, body |-> RequestBody(s),
                   i |-> nextTopLevel(1), allPrunedIds |-> {},
                   instants |-> {heldForTopLevel(store)}]
    /\ UNCHANGED << nmsgs, store, passes, outcome, toolTracker, prune >>
    /\ UNCHANGED << requestVars, persistVars, state >>

\* await stateManager.get(session.id) settles: its ids are added; the loop
\* suspends in the next get or, when it is over, the body is rewritten and
\* handed to the original fetch in the same stretch.
GlobalFetchGet ==
    /\ outcome = Nothing
    /\ collect.pc = "get"
    /\ LET allPruned == collect.allPrunedIds \cup stateGet(allSessions[collect.i])
           j == nextTopLevel(collect.i + 1)
       IN  IF j # 0
           THEN /\ collect' = [collect EXCEPT !.i = j, !.allPrunedIds = allPruned]
                /\ UNCHANGED outcome
           ELSE /\ collect' = NotCollecting
                /\ outcome' = [variant |-> "global", sid |-> collect.sid,
                               orig |-> collect.body,
                               body |-> rewriteGlobal(collect.body, allPruned),
                               pruned |-> allPruned,
                               instants |-> collect.instants]
    /\ UNCHANGED << nmsgs, store, passes, toolTracker, prune >>
    /\ UNCHANGED << requestVars, persistVars, state >>

\* The sessions without a parent.
TopLevel == {s \in Hosted : ParentID(s) = ""}

\* The decisions drawn here: nothing, or the session's plain tool call as
\* the pass normalised it.
SingleDecisions(s) ==
    {d \in Decisions(s) : d \subseteq {id \in NormIds(s) : id[1] = "call_"}}

GlobalNext ==
    \/ \E s \in TopLevel : HostAppend(s)
    \/ \E s \in TopLevel, lookupOk \in BOOLEAN : IdleEvent(s, lookupOk)
    \/ \E r \in Running, ok \in BOOLEAN : RunFetch(r, ok)
    \/ \E r \in Running : RunRead(r)
    \/ \E r \in Running : \E decision \in SingleDecisions(r.sid) : RunDecide(r, decision)
    \/ \E r \in Running : RunToast(r)
    \/ \E s \in TopLevel, lookupOk \in BOOLEAN : ChatRequest(s, lookupOk)
    \/ \E s \in TopLevel : GlobalFetchList(s)
    \/ GlobalFetchGet
    \/ Taken

GlobalSpec == Init /\ [][GlobalNext]_vars

(***************************************************************************)
(* The tool result tracker and the three format adapters                   *)
(* (src/lib/synth-instruction.ts), and the pruning tool's continuation.    *)
(***************************************************************************)
\* config.nudge_freq
nudge_freq == 2

\* tracker.getToolName?.(callId) for the entry carrying callId: undefined
\* ("") when the member is not set, otherwise the tool the call invoked.
getToolName(tracker, entry) == IF tracker.getToolName THEN entry.tool ELSE ""

\* The loop state of one countToolResults call: the tracker and newCount.
startScan(tracker) ==
    [seenToolResultIds |-> tracker.seenToolResultIds,
     toolResultCount |-> tracker.toolResultCount,
     skipNextIdle |-> tracker.skipNextIdle,
     getToolName |-> tracker.getToolName,
     newCount |-> 0]

\* tracker.toolResultCount += newCount
endScan(scan) ==
    [seenToolResultIds |-> scan.seenToolResultIds,
     toolResultCount |-> scan.toolResultCount + scan.newCount,
     skipNextIdle |-> scan.skipNextIdle,
     getToolName |-> scan.getToolName]

\* A loop body that counts a result whether or not its id was seen.
noteResultAgain(scan, id, toolName) ==
    [scan EXCEPT !.seenToolResultIds = @ \cup {id},
                 !.newCount = @ + 1,
                 !.skipNextIdle = IF toolName # "context_pruning" THEN FALSE ELSE @]

\* A loop body that never clears skipNextIdle.
noteResultKeepingSkip(scan, id, toolName) ==
    IF id \in scan.seenToolResultIds THEN scan
    ELSE [scan EXCEPT !.seenToolResultIds = @ \cup {id}, !.newCount = @ + 1]

\* if (!tracker.seenToolResultIds.has(id)) { add(id); newCount++;
\*     if (toolName !== 'context_pruning') tracker.skipNextIdle = false }
noteResult(scan, id, toolName) ==
    IF id \in scan.seenToolResultIds THEN scan
    ELSE [scan EXCEPT !.seenToolResultIds = @ \cup {id},
                      !.newCount = @ + 1,
                      !.skipNextIdle =
                          IF toolName # "context_pruning" THEN FALSE ELSE @]

\* An entry whose content is an array carries it in the field parts.
isArrayContent(m) == "parts" \in DOMAIN m

\* openaiAdapter.countToolResults, the loop over m.content.
RECURSIVE openaiParts(_, _)
openaiParts(parts, scan) ==
    IF parts = << >> THEN scan
    ELSE LET part == Head(parts)
         IN  openaiParts(Tail(parts),
                 IF part.type = "tool_result" /\ part.tool_use_id # NoId
                 THEN noteResult(scan, toLowerCase(part.tool_use_id),
                                 getToolName(scan, part))
                 ELSE scan)

\* openaiAdapter.countToolResults, the loop over messages.
RECURSIVE openaiMessages(_, _)
openaiMessages(messages, scan) ==
    IF messages = << >> THEN scan
    ELSE LET m == Head(messages)
         IN  openaiMessages(Tail(messages),
                 IF m.role = "tool" /\ m.tool_call_id # NoId
                 THEN noteResult(scan, toLowerCase(m.tool_call_id),
                                 IF m.name # "" THEN m.name
                                 ELSE getToolName(scan, m))
                 ELSE IF m.role = "user" /\ isArrayContent(m)
                 THEN openaiParts(m.parts, scan)
                 ELSE scan)

\* `gemini:${funcName}:${tracker.seenToolResultIds.size}`
pseudoId(funcName, size) == << "gemini:", funcName, size >>

\* geminiAdapter.countToolResults, the loop over content.parts.
RECURSIVE geminiParts(_, _)
geminiParts(parts, scan) ==
    IF parts = << >> THEN scan
    ELSE LET part == Head(parts)
             funcName == IF part.functionResponse.name = "" THEN "unknown"
                         ELSE LowerTok(part.functionResponse.name)
         IN  geminiParts(Tail(parts),
                 IF "functionResponse" \in DOMAIN part
                 THEN noteResult(scan,
                                 pseudoId(funcName,
                                          Cardinality(scan.seenToolResultIds)),
                                 funcName)
                 ELSE scan)

\* geminiAdapter.countToolResults, the loop over contents.
RECURSIVE geminiContents(_, _)
geminiContents(contents, scan) ==
    IF contents = << >> THEN scan
    ELSE geminiContents(Tail(contents),
             IF "parts" \in DOMAIN Head(contents)
             THEN geminiParts(Head(contents).parts, scan)
             ELSE scan)

\* responsesAdapter.countToolResults, the loop over input.
RECURSIVE responsesItems(_, _)
responsesItems(input, scan) ==
    IF input = << >> THEN scan
    ELSE LET item == Head(input)
         IN  responsesItems(Tail(input),
                 IF item.type = "function_call_output" /\ item.call_id # NoId
                 THEN noteResult(scan, toLowerCase(item.call_id),
                                 IF item.name # "" THEN item.name
                                 ELSE getToolName(scan, item))
                 ELSE scan)

\* adapter.countToolResults(messages, tracker): the tracker afterwards.
countToolResults(format, messages, tracker) ==
    endScan(CASE format = "openai" -> openaiMessages(messages, startScan(tracker))
              [] format = "gemini" -> geminiContents(messages, startScan(tracker))
              [] format = "responses" -> responsesItems(messages, startScan(tracker)))

nudgeText == << "nudge" >>

\* A nudge that is put in front of the body.
prependNudge(format, messages) ==
    << CASE format = "openai" ->
                [role |-> "user", tool_call_id |-> NoId, name |-> "",
                 content |-> nudgeText]
         [] format = "gemini" ->
                [role |-> "user", parts |-> << [text |-> nudgeText] >>]
         [] format = "responses" ->
                [type |-> "message", role |-> "user", call_id |-> NoId,
                 name |-> "", content |-> nudgeText] >> \o messages

\* adapter.appendNudge(messages, nudgeText)
appendNudge(format, messages) ==
    Append(messages,
           CASE format = "openai" ->
                    [role |-> "user", tool_call_id |-> NoId, name |-> "",
                     content |-> nudgeText]
             [] format = "gemini" ->
                    [role |-> "user", parts |-> << [text |-> nudgeText] >>]
             [] format = "responses" ->
                    [type |-> "message", role |-> "user", call_id |-> NoId,
                     name |-> "", content |-> nudgeText])

\* A test that starts nudging as soon as the count reaches the frequency.
exceedsFreqAtFreq(tracker) == tracker.toolResultCount >= nudge_freq

\* if (tracker.toolResultCount > freq)
exceedsFreq(tracker) == tracker.toolResultCount > nudge_freq

\* injectNudgeCore on the parsed body of an outbound request: count the new
\* tool results, then append the nudge once the count exceeds freq.
injectNudgeCore(messages, format) ==
    /\ toolTracker' = countToolResults(format, messages, toolTracker)
    /\ outcome' = [variant |-> "scan", format |-> format, orig |-> messages,
                   body |-> IF exceedsFreq(toolTracker')
                            THEN appendNudge(format, messages) ELSE messages,
                   nudged |-> exceedsFreq(toolTracker'),
                   before |-> toolTracker]
    /\ UNCHANGED << nmsgs, store, passes, prune, collect >>
    /\ UNCHANGED << toolParametersCache, persistVars, state >>

InjectNudge(messages) ==
    /\ outcome = Nothing
    /\ injectNudgeCore(messages, "openai")
    /\ UNCHANGED request

InjectNudgeGemini(contents) ==
    /\ outcome = Nothing
    /\ Cardinality(toolTracker.seenToolResultIds) < MaxSeen
    /\ injectNudgeCore(contents, "gemini")
    /\ UNCHANGED request

InjectNudgeResponses(input) ==
    /\ outcome = Nothing
    /\ injectNudgeCore(input, "responses")
    /\ UNCHANGED request

\* The plugin gives the tracker its getToolName member.
AssignGetToolName ==
    /\ outcome = Nothing
    /\ ~toolTracker.getToolName
    /\ toolTracker' = [toolTracker EXCEPT !.getToolName = TRUE]
    /\ UNCHANGED << nmsgs, store, passes, outcome, prune, collect >>
    /\ UNCHANGED << requestVars, persistVars, state >>

\* What janitor.runForTool can settle with: null, or a result with its
\* prunedCount.
ToolResults ==
    {[returned |-> FALSE, prunedCount |-> 0],
     [returned |-> TRUE, prunedCount |-> 0],
     [returned |-> TRUE, prunedCount |-> 1]}

\* resetToolTrackerCount(tracker)
resetToolTrackerCount(tracker) == [tracker EXCEPT !.toolResultCount = 0]

\* createPruningTool.execute after await janitor.runForTool has settled:
\* skipNextIdle is set, the count is reset when nudging is configured, and
\* the text for the agent is returned.
PruneToolSettled(result) ==
    /\ outcome.variant = "tool" /\ outcome.ran
    /\ LET skipping == [toolTracker EXCEPT !.skipNextIdle = TRUE]
       IN  toolTracker' = IF nudge_freq > 0 THEN resetToolTrackerCount(skipping)
                          ELSE skipping
    /\ outcome' = [variant |-> "pruned", sid |-> outcome.sid, result |-> result,
                   before |-> toolTracker]
    /\ UNCHANGED << nmsgs, store, passes, prune, collect >>
    /\ UNCHANGED << requestVars, persistVars, state >>

\* Wire entries of the three formats.  tool is the tool the call invoked,
\* which is what a getToolName lookup answers; name is the name field as it
\* is on the wire ("" = absent).
ToolMessage(id, name, tool) ==
    [role |-> "tool", tool_call_id |-> id, name |-> name, tool |-> tool,
     content |-> << "output" >>]
UserMessage ==
    [role |-> "user", tool_call_id |-> NoId, name |-> "", content |-> << "text" >>]
ToolResultBlocks(parts) ==
    [role |-> "user", tool_call_id |-> NoId, name |-> "", content |-> << "blocks" >>,
     parts |-> parts]
ToolResultBlock(id, tool) ==
    [type |-> "tool_result", tool_use_id |-> id, tool |-> tool]
FunctionCallOutput(id, name, tool) ==
    [type |-> "function_call_output", call_id |-> id, name |-> name,
     tool |-> tool, content |-> << "output" >>]
InputMessage ==
    [type |-> "message", role |-> "user", call_id |-> NoId, name |-> "",
     content |-> << "text" >>]
FunctionResponse(name) == [functionResponse |-> [name |-> name]]

\* A chat-completions conversation: a plain tool result, an inline
\* tool_result block, the pruning tool's result with its name, the first
\* result again in another case, and the pruning tool's result without a
\* name field.
ChatScript ==
    << UserMessage,
       ToolMessage(<<"call_", "A">>, "", "read"),
       ToolResultBlocks(<< ToolResultBlock(<<"TOOLU_", "B">>, "bash") >>),
       ToolMessage(<<"call_", "P">>, "context_pruning", "context_pruning"),
       ToolMessage(<<"CALL_", "A">>, "read", "read"),
       ToolMessage(<<"call_", "Q">>, "", "context_pruning") >>

\* The same conversation as flat items.
ResponsesScript ==
    << InputMessage,
       FunctionCallOutput(<<"call_", "A">>, "", "read"),
       FunctionCallOutput(<<"toolu_", "B">>, "bash", "bash"),
       FunctionCallOutput(<<"call_", "P">>, "context_pruning", "context_pruning"),
       FunctionCallOutput(<<"CALL_", "A">>, "read", "read"),
       FunctionCallOutput(<<"call_", "Q">>, "", "context_pruning") >>

\* A content/parts conversation: two responses of the same function in one
\* entry, then the pruning tool's response.
GeminiScript ==
    << [role |-> "user", parts |-> << [text |-> << "text" >>] >>],
       [role |-> "user", parts |-> << FunctionResponse("Read"),
                                      FunctionResponse("read") >>],
       [role |-> "user", parts |-> << FunctionResponse("context_pruning") >>] >>

\* The bodies of successive requests: the conversation so far.
Prefixes(script) == {SubSeq(script, 1, n) : n \in 1 .. Len(script)}

TrackerNext ==
    \/ \E messages \in Prefixes(ChatScript) : InjectNudge(messages)
    \/ \E contents \in Prefixes(GeminiScript) : InjectNudgeGemini(contents)
    \/ \E input \in Prefixes(ResponsesScript) : InjectNudgeResponses(input)
    \/ AssignGetToolName
    \/ \E s \in Sessions, lookupOk \in BOOLEAN : PruneTool(s, lookupOk)
    \/ \E result \in ToolResults : PruneToolSettled(result)
    \/ Taken

TrackerSpec == Init /\ [][TrackerNext]_vars

(***************************************************************************)
(* The squash tool (src/unnamed/part_003).                                 *)
(***************************************************************************)
\* msg.info.id of the i-th message of session s.
messageId(s, i) == << s, i >>

\* findStringInMessages: locations is where the search string occurs, each
\* location a message index and the number of the occurrence within that
\* message.  A message is entered in matches once, however often the string
\* occurs in it; anything but exactly one message throws.
findStringInMessages(locations) ==
    LET matches == {loc[1] : loc \in locations}
    IN  IF Cardinality(matches) = 0
        THEN [error |-> "String not found", messageIndex |-> 0]
        ELSE IF Cardinality(matches) > 1
        THEN [error |-> "String found in several messages", messageIndex |-> 0]
        ELSE [error |-> "", messageIndex |-> CHOOSE i \in matches : TRUE]

\* The tool parts of one message added to toolIds, each callID once.
RECURSIVE collectParts(_, _)
collectParts(parts, toolIds) ==
    IF parts = << >> THEN toolIds
    ELSE collectParts(Tail(parts),
             IF Head(parts).type = "tool" /\ Head(parts).callID # NoId
                /\ Head(parts).callID \notin Range(toolIds)
             THEN Append(toolIds, Head(parts).callID)
             ELSE toolIds)

\* A collection that stops before the end message.
RECURSIVE collectToolIdsBefore(_, _, _)
collectToolIdsBefore(messages, startIndex, endIndex) ==
    IF startIndex >= endIndex THEN << >>
    ELSE collectParts(messages[endIndex - 1],
                      collectToolIdsBefore(messages, startIndex, endIndex - 1))

\* collectToolIdsInRange(messages, startIndex, endIndex), inclusive.
RECURSIVE collectToolIdsInRange(_, _, _)
collectToolIdsInRange(messages, startIndex, endIndex) ==
    IF startIndex > endIndex THEN << >>
    ELSE collectParts(messages[endIndex],
                      collectToolIdsInRange(messages, startIndex, endIndex - 1))

\* collectMessageIdsInRange(messages, startIndex, endIndex), inclusive.
collectMessageIdsInRange(s, startIndex, endIndex) ==
    [k \in 1 .. (endIndex - startIndex + 1) |-> messageId(s, startIndex + k - 1)]

\* The contents of the parts of one message: the text of a text part, the
\* input and the output of a tool part.
RECURSIVE partContents(_)
partContents(parts) ==
    IF parts = << >> THEN << >>
    ELSE (IF Head(parts).type = "text" THEN << "text" >>
          ELSE IF Head(parts).type = "tool" THEN << "input", "output" >>
          ELSE << >>) \o partContents(Tail(parts))

\* collectContentInRange(messages, startIndex, endIndex), inclusive.
RECURSIVE collectContentInRange(_, _, _)
collectContentInRange(messages, startIndex, endIndex) ==
    IF startIndex > endIndex THEN << >>
    ELSE collectContentInRange(messages, startIndex, endIndex - 1)
         \o partContents(messages[endIndex])

\* estimateTokensBatch(contents): every content counts as one token.
estimateTokensBatch(contents) == Len(contents)

\* saveSessionState(state, logger) as started: the write in flight, with the
\* session state as it is at the call.
saveSessionState(pruneNow, statsNow) ==
    [kind |-> "save", prune |-> pruneNow, stats |-> statsNow]

\* A squash tool that also cuts the squashed range out of the transcript.
SquashToolCutting(s, argsOk, startMatches, endMatches) ==
    /\ outcome = Nothing
    /\ Len(prune.squashSummaries) < MaxSquash
    /\ LET startResult == findStringInMessages(startMatches)
           endResult == findStringInMessages(endMatches)
       IN  /\ argsOk /\ startResult.error = "" /\ endResult.error = ""
           /\ startResult.messageIndex <= endResult.messageIndex
           /\ nmsgs' = [nmsgs EXCEPT ![s] = startResult.messageIndex]
           /\ prune' = [prune EXCEPT !.squashSummaries =
                            Append(@, [anchorMessageId |->
                                           messageId(s, startResult.messageIndex),
                                       summary |-> "summary"])]
           /\ outcome' = [variant |-> "squash", sid |-> s, before |-> prune,
                          messages |-> nmsgs[s], containedToolIds |-> << >>,
                          messagesSquashed |-> endResult.messageIndex
                                               - startResult.messageIndex + 1]
    /\ UNCHANGED << store, passes, toolTracker, collect >>
    /\ UNCHANGED << requestVars, persistVars, state >>

\* createSquashTool.execute: the arguments are validated, the messages
\* fetched, both strings located; the tool and message ids of the range and
\* the summary are pushed to state.prune.  A failed validation or search
\* throws before anything is pushed.
SquashTool(s, argsOk, startMatches, endMatches) ==
    /\ outcome = Nothing
    /\ Len(prune.squashSummaries) < MaxSquash
    /\ LET startResult == findStringInMessages(startMatches)
           endResult == findStringInMessages(endMatches)
           error == IF ~argsOk THEN "input is required"
                    ELSE IF startResult.error # "" THEN startResult.error
                    ELSE IF endResult.error # "" THEN endResult.error
                    ELSE IF startResult.messageIndex > endResult.messageIndex
                    THEN "startString appears after endString"
                    ELSE ""
           containedToolIds ==
               collectToolIdsInRange(Script(s), startResult.messageIndex,
                                     endResult.messageIndex)
           containedMessageIds ==
               collectMessageIdsInRange(s, startResult.messageIndex,
                                        endResult.messageIndex)
           estimatedSquashedTokens ==
               estimateTokensBatch(
                   collectContentInRange(Script(s), startResult.messageIndex,
                                         endResult.messageIndex))
       IN  IF error # ""
           THEN /\ outcome' = [variant |-> "thrown", sid |-> s, error |-> error,
                               before |-> prune, messages |-> nmsgs[s]]
                /\ UNCHANGED << prune, stats, pending >>
           ELSE /\ prune' =
                       [toolIds |-> prune.toolIds \o containedToolIds,
                        messageIds |-> prune.messageIds \o containedMessageIds,
                        squashSummaries |->
                            Append(prune.squashSummaries,
                                   [anchorMessageId |->
                                        messageId(s, startResult.messageIndex),
                                    summary |-> "summary"])]
                /\ stats' = [pruneTokenCounter |-> 0,
                             totalPruneTokens |->
                                 stats.totalPruneTokens + stats.pruneTokenCounter
                                 + estimatedSquashedTokens]
                /\ pending' = pending (+) SetToBag({saveSessionState(prune', stats')})
                /\ outcome' = [variant |-> "squash", sid |-> s, before |-> prune,
                               messages |-> nmsgs[s],
                               containedToolIds |-> containedToolIds,
                               messagesSquashed |-> endResult.messageIndex
                                                    - startResult.messageIndex + 1]
    /\ UNCHANGED << nmsgs, store, passes, toolTracker, collect >>
    /\ UNCHANGED << requestVars, persisted, state >>

\* A failed save that takes the session state back to what storage holds.
SaveSettledRollingBack(p, ok, late) ==
    /\ outcome = Nothing
    /\ BagIn(p, pending) /\ p.kind = "save"
    /\ pending' = pending (-) SetToBag({p})
    /\ prune' = IF ok THEN prune
                ELSE IF persisted.saved THEN persisted.prune ELSE createSessionState
    /\ persisted' = IF ok THEN [saved |-> TRUE, prune |-> p.prune, stats |-> p.stats]
                    ELSE persisted
    /\ outcome' = [variant |-> "saved", ok |-> ok, save |-> p, before |-> persisted,
                   memory |-> prune]
    /\ UNCHANGED << nmsgs, store, passes, toolTracker, collect, stats >>
    /\ UNCHANGED << requestVars, state >>

\* The save a squash started settles.  A write that succeeds stores the
\* session state, as it was at the call or as it is when the write is made;
\* a write that fails is logged by the catch handler and nothing else.
SaveSettled(p, ok, late) ==
    /\ outcome = Nothing
    /\ BagIn(p, pending) /\ p.kind = "save"
    /\ pending' = pending (-) SetToBag({p})
    /\ persisted' = IF ~ok THEN persisted
                    ELSE IF late
                    THEN [saved |-> TRUE, prune |-> prune, stats |-> stats]
                    ELSE [saved |-> TRUE, prune |-> p.prune, stats |-> p.stats]
    /\ outcome' = [variant |-> "saved", ok |-> ok, save |-> p, before |-> persisted,
                   memory |-> prune]
    /\ UNCHANGED << nmsgs, store, passes, toolTracker, prune, collect, stats >>
    /\ UNCHANGED << requestVars, state >>

\* Where a search string can occur in a transcript of n messages: nowhere,
\* once, twice in one message, or once in every message.
Matches(n) ==
    {{}} \cup {{<< i, 1 >>} : i \in 1 .. n}
         \cup {{<< i, 1 >>, << i, 2 >>} : i \in 1 .. n}
         \cup {{<< i, 1 >> : i \in 1 .. n}}

(***************************************************************************)
(* Every handler that works on a transcript or on an outbound request,     *)
(* side by side on the top-level session: analysis passes, both rewriters, *)
(* nudge injection on the request body and the squash tool.                *)
(***************************************************************************)
FrameNext ==
    \/ \E s \in Sessions \cap TopLevel : HostAppend(s)
    \/ \E s \in Sessions \cap TopLevel, lookupOk \in BOOLEAN : IdleEvent(s, lookupOk)
    \/ \E r \in Running, ok \in BOOLEAN : RunFetch(r, ok)
    \/ \E r \in Running : RunRead(r)
    \/ \E r \in Running : \E decision \in SingleDecisions(r.sid) : RunDecide(r, decision)
    \/ \E r \in Running : RunToast(r)
    \/ \E s \in Sessions \cap TopLevel, lookupOk \in BOOLEAN : ChatRequest(s, lookupOk)
    \/ \E s \in Sessions \cap TopLevel, listOk \in BOOLEAN : GlobalFetch(s, listOk)
    \/ \E s \in Sessions \cap TopLevel : InjectNudge(RequestBody(s))
    \/ \E s \in Sessions \cap TopLevel, argsOk \in BOOLEAN :
           \E startMatches \in Matches(nmsgs[s]), endMatches \in Matches(nmsgs[s]) :
               /\ Len(prune.squashSummaries) < MaxFrameSquash
               /\ SquashTool(s, argsOk, startMatches, endMatches)
    \/ Taken

FrameSpec == Init /\ [][FrameNext]_vars

(***************************************************************************)
(* Instruction injection (src/lib/synth-instruction.ts, injectSynth and    *)
(* its two siblings) and the injection functions at work on the body of    *)
(* one outbound request, which they change in place.                       *)
(***************************************************************************)
\* The system instruction the plugin injects.
instruction == << "instruction" >>

\* text.includes(sub)
includes(text, sub) ==
    \E i \in 1 .. (Len(text) - Len(sub) + 1) :
        SubSeq(text, i, i + Len(sub) - 1) = sub

\* isNudgeMessage(msg, nudgeText)
isNudgeMessage(msg) == ~isArrayContent(msg) /\ msg.content = nudgeText

\* isNudgeContentGemini(content, nudgeText)
isNudgeContentGemini(content) ==
    /\ isArrayContent(content)
    /\ Len(content.parts) = 1
    /\ "text" \in DOMAIN content.parts[1]
    /\ content.parts[1].text = nudgeText

\* isNudgeItemResponses(item, nudgeText)
isNudgeItemResponses(item) == ~isArrayContent(item) /\ item.content = nudgeText

\* An injection that appends without looking for the instruction.
injectIntoAgain(msg, partType) ==
    IF ~isArrayContent(msg)
    THEN [returned |-> TRUE,
          msg |-> [msg EXCEPT !.content = @ \o << "\n\n" >> \o instruction]]
    ELSE [returned |-> TRUE,
          msg |-> [msg EXCEPT !.parts =
                       Append(@, [type |-> partType, text |-> instruction])]]

\* The instruction appended to a string content, or pushed to an array
\* content as a part of the given type, unless the content holds it already.
\* A user content is a string or an array of parts.
injectInto(msg, partType) ==
    IF ~isArrayContent(msg)
    THEN IF includes(msg.content, instruction)
         THEN [returned |-> FALSE, msg |-> msg]
         ELSE [returned |-> TRUE,
               msg |-> [msg EXCEPT !.content = @ \o << "\n\n" >> \o instruction]]
    ELSE IF \E k \in DOMAIN msg.parts :
                /\ msg.parts[k].type = partType
                /\ includes(msg.parts[k].text, instruction)
         THEN [returned |-> FALSE, msg |-> msg]
         ELSE [returned |-> TRUE,
               msg |-> [msg EXCEPT !.parts =
                            Append(@, [type |-> partType, text |-> instruction])]]

\* injectSynth: the loop from index i down to the first message.
RECURSIVE injectSynthFrom(_, _)
injectSynthFrom(messages, i) ==
    IF i = 0 THEN [returned |-> FALSE, messages |-> messages]
    ELSE IF messages[i].role = "user" /\ ~isNudgeMessage(messages[i])
    THEN LET done == injectInto(messages[i], "text")
         IN  [returned |-> done.returned,
              messages |-> [messages EXCEPT ![i] = done.msg]]
    ELSE injectSynthFrom(messages, i - 1)

\* injectSynth(messages, instruction, nudgeText)
injectSynth(messages) == injectSynthFrom(messages, Len(messages))

\* injectSynthGemini: the loop from index i down to the first content.
RECURSIVE injectSynthGeminiFrom(_, _)
injectSynthGeminiFrom(contents, i) ==
    IF i = 0 THEN [returned |-> FALSE, messages |-> contents]
    ELSE IF /\ contents[i].role = "user"
            /\ isArrayContent(contents[i])
            /\ ~isNudgeContentGemini(contents[i])
    THEN IF \E k \in DOMAIN contents[i].parts :
                /\ "text" \in DOMAIN contents[i].parts[k]
                /\ includes(contents[i].parts[k].text, instruction)
         THEN [returned |-> FALSE, messages |-> contents]
         ELSE [returned |-> TRUE,
               messages |-> [contents EXCEPT ![i].parts =
                                 Append(@, [text |-> instruction])]]
    ELSE injectSynthGeminiFrom(contents, i - 1)

\* injectSynthGemini(contents, instruction, nudgeText)
injectSynthGemini(contents) == injectSynthGeminiFrom(contents, Len(contents))

\* injectSynthResponses: the loop from index i down to the first item.
RECURSIVE injectSynthResponsesFrom(_, _)
injectSynthResponsesFrom(input, i) ==
    IF i = 0 THEN [returned |-> FALSE, messages |-> input]
    ELSE IF /\ input[i].type = "message"
            /\ input[i].role = "user"
            /\ ~isNudgeItemResponses(input[i])
    THEN LET done == injectInto(input[i], "input_text")
         IN  [returned |-> done.returned,
              messages |-> [input EXCEPT ![i] = done.msg]]
    ELSE injectSynthResponsesFrom(input, i - 1)

\* injectSynthResponses(input, instruction, nudgeText)
injectSynthResponses(input) == injectSynthResponsesFrom(input, Len(input))

\* A user turn whose content is an array of text parts.
TextBlocks(partType) ==
    [role |-> "user", tool_call_id |-> NoId, name |-> "",
     content |-> << "blocks" >>,
     parts |-> << [type |-> partType, text |-> << "text" >>] >>]

\* The bodies the host sends: the conversations so far, a conversation that
\* opens with a user turn of text parts, and one without any user turn.
Bodies3(format) ==
    CASE format = "openai" ->
             Prefixes(ChatScript)
             \cup {<< TextBlocks("text"),
                      ToolMessage(<<"call_", "A">>, "", "read") >>,
                   << ToolMessage(<<"call_", "A">>, "", "read") >>}
      [] format = "gemini" ->
             Prefixes(GeminiScript)
             \cup {<< [role |-> "model", parts |-> << [text |-> << "text" >>] >>] >>}
      [] format = "responses" ->
             Prefixes(ResponsesScript)
             \cup {<< [type |-> "message"] @@ TextBlocks("input_text"),
                      FunctionCallOutput(<<"call_", "A">>, "", "read") >>,
                   << FunctionCallOutput(<<"call_", "A">>, "", "read") >>}

Formats == {"openai", "gemini", "responses"}

\* How many entries of the body are nudge-only turns.
nudgeTurns(req) ==
    Cardinality({i \in DOMAIN req.messages :
        CASE req.format = "openai" ->
                 req.messages[i].role = "user" /\ isNudgeMessage(req.messages[i])
          [] req.format = "gemini" -> isNudgeContentGemini(req.messages[i])
          [] req.format = "responses" ->
                 /\ req.messages[i].type = "message"
                 /\ isNudgeItemResponses(req.messages[i])})

\* The fetch wrapper parses the body of an outbound request.
ParseRequest(format, messages) ==
    /\ outcome = Nothing
    /\ request' = [format |-> format, messages |-> messages]
    /\ UNCHANGED << nmsgs, store, passes, outcome, toolTracker, prune, collect >>
    /\ UNCHANGED << toolParametersCache, persistVars, state >>

\* injectNudge, injectNudgeGemini or injectNudgeResponses, as the format of
\* the body has it, on the parsed body: the array itself takes the nudge.
NudgeRequest ==
    /\ outcome = Nothing
    /\ request # NoBody
    /\ nudgeTurns(request) < MaxNudges
    /\ request.format = "gemini"
           => Cardinality(toolTracker.seenToolResultIds) < MaxSeen
    /\ injectNudgeCore(request.messages, request.format)
    /\ request' = [request EXCEPT !.messages = outcome'.body]

\* The instruction injected into the parsed body, in place.
synthStep(format, done) ==
    /\ outcome' = [variant |-> "synth", format |-> format,
                   orig |-> request.messages, body |-> done.messages,
                   returned |-> done.returned]
    /\ request' = [request EXCEPT !.messages = done.messages]
    /\ UNCHANGED << nmsgs, store, passes, toolTracker, prune, collect >>
    /\ UNCHANGED << toolParametersCache, persistVars, state >>

InjectSynth ==
    /\ outcome = Nothing
    /\ request.format = "openai"
    /\ synthStep("openai", injectSynth(request.messages))

InjectSynthGemini ==
    /\ outcome = Nothing
    /\ request.format = "gemini"
    /\ synthStep("gemini", injectSynthGemini(request.messages))

InjectSynthResponses ==
    /\ outcome = Nothing
    /\ request.format = "responses"
    /\ synthStep("responses", injectSynthResponses(request.messages))

RequestNext ==
    \/ \E format \in Formats : \E messages \in Bodies3(format) :
           ParseRequest(format, messages)
    \/ NudgeRequest
    \/ InjectSynth
    \/ InjectSynthGemini
    \/ InjectSynthResponses
    \/ Taken

RequestSpec == Init /\ [][RequestNext]_vars

(***************************************************************************)
(* The squash tool and the storage of its session state.                   *)
(***************************************************************************)
SquashNext ==
    \/ \E s \in Sessions \cap TopLevel : HostAppend(s)
    \/ \E s \in Sessions \cap TopLevel, argsOk \in BOOLEAN :
           \E startMatches \in Matches(nmsgs[s]), endMatches \in Matches(nmsgs[s]) :
               SquashTool(s, argsOk, startMatches, endMatches)
    \/ \E p \in BagToSet(pending) : \E ok \in BOOLEAN, late \in BOOLEAN :
           SaveSettled(p, ok, late)
    \/ Taken

SquashSpec == Init /\ [][SquashNext]_vars

(***************************************************************************)
(* The tool-parameter caches: the map of src/index.ts, filled by the       *)
(* global fetch wrapper, and state.toolParameters of                       *)
(* src/lib/state/index.ts with its trim function.  A map is modelled by    *)
(* its keys in insertion order; setting a key that is present keeps its    *)
(* place.                                                                  *)
(***************************************************************************)
\* Map.prototype.set(key, value), on the keys.
mapSet(keys, key) == IF key \in Range(keys) THEN keys ELSE Append(keys, key)

\* JSON.parse of the arguments of a tool call: a string that is no JSON
\* throws.
parses(arguments) == arguments # "{not json"

\* The loop over message.tool_calls.
RECURSIVE cacheToolCalls(_, _)
cacheToolCalls(toolCalls, keys) ==
    IF toolCalls = << >> THEN keys
    ELSE LET toolCall == Head(toolCalls)
         IN  cacheToolCalls(Tail(toolCalls),
                 IF toolCall.id = NoId \/ ~toolCall.hasFunction THEN keys
                 ELSE IF ~parses(toolCall.arguments) THEN keys
                 ELSE mapSet(keys, toolCall.id))

\* cacheToolParameters / cacheToolParametersFromMessages: the loop over
\* messages.
RECURSIVE cacheToolParametersFromMessages(_, _)
cacheToolParametersFromMessages(messages, keys) ==
    IF messages = << >> THEN keys
    ELSE LET message == Head(messages)
         IN  cacheToolParametersFromMessages(Tail(messages),
                 IF message.role # "assistant" \/ "tool_calls" \notin DOMAIN message
                 THEN keys
                 ELSE cacheToolCalls(message.tool_calls, keys))

\* cacheToolParametersFromInput: the loop over input.
RECURSIVE cacheToolParametersFromInput(_, _)
cacheToolParametersFromInput(input, keys) ==
    IF input = << >> THEN keys
    ELSE LET item == Head(input)
         IN  cacheToolParametersFromInput(Tail(input),
                 IF item.type # "function_call" \/ item.call_id = NoId
                    \/ item.name = ""
                 THEN keys
                 ELSE IF ~parses(item.arguments) THEN keys
                 ELSE mapSet(keys, item.call_id))

\* trimToolParametersCache(state), on the keys: the first
\* size - MAX_TOOL_CACHE_SIZE keys are deleted.
trimToolParametersCache(keys) ==
    IF Len(keys) <= MAX_TOOL_CACHE_SIZE THEN keys
    ELSE SubSeq(keys, Len(keys) - MAX_TOOL_CACHE_SIZE + 1, Len(keys))

\* Entries of request bodies that carry tool calls.
ToolCall(id, arguments) ==
    [id |-> id, hasFunction |-> TRUE, name |-> "read", arguments |-> arguments]
AssistantMessage(toolCalls) == [role |-> "assistant", tool_calls |-> toolCalls]
FunctionCall(id, name, arguments) ==
    [type |-> "function_call", call_id |-> id, name |-> name,
     arguments |-> arguments]

\* The conversations of two sessions: one with four tool calls, one of them
\* with arguments that do not parse, and one with two tool calls and a call
\* without an id.
CallScript(s) ==
    IF s = "ses_main"
    THEN << [role |-> "user"],
            AssistantMessage(<< ToolCall(<<"call_", "A">>, "{}"),
                                ToolCall(<<"call_", "B">>, "{}") >>),
            AssistantMessage(<< ToolCall(<<"call_", "P">>, "{not json"),
                                ToolCall(<<"call_", "Q">>, "{}") >>) >>
    ELSE << AssistantMessage(<< ToolCall(<<"call_", "S">>, "{}") >>),
            [role |-> "assistant"],
            AssistantMessage(<< ToolCall(NoId, "{}"),
                                ToolCall(<<"call_", "O">>, "{}") >>) >>

\* The same conversations as flat items.
CallInput(s) ==
    IF s = "ses_main"
    THEN << [type |-> "message"],
            FunctionCall(<<"call_", "A">>, "read", "{}"),
            FunctionCall(<<"call_", "B">>, "read", "{}"),
            FunctionCall(<<"call_", "P">>, "read", "{not json"),
            FunctionCall(<<"call_", "Q">>, "read", "{}") >>
    ELSE << FunctionCall(<<"call_", "S">>, "read", "{}"),
            FunctionCall(NoId, "read", "{}"),
            FunctionCall(<<"call_", "O">>, "", "{}"),
            FunctionCall(<<"call_", "O">>, "read", "{}") >>

\* The global fetch wrapper of src/index.ts: the tool calls of the request
\* are entered in toolParametersCache.
CacheToolParameters(messages) ==
    /\ outcome = Nothing
    /\ toolParametersCache' =
           cacheToolParametersFromMessages(messages, toolParametersCache)
    /\ outcome' = [variant |-> "cached", cache |-> "toolParametersCache",
                   before |-> toolParametersCache]
    /\ UNCHANGED << nmsgs, store, passes, toolTracker, prune, collect >>
    /\ UNCHANGED << request, persistVars, state >>

\* cacheToolParametersFromMessages(messages, state)
CacheFromMessages(messages) ==
    /\ outcome = Nothing
    /\ state' = [state EXCEPT !.toolParameters =
                     cacheToolParametersFromMessages(messages, @)]
    /\ outcome' = [variant |-> "cached", cache |-> "state.toolParameters",
                   before |-> state.toolParameters]
    /\ UNCHANGED << nmsgs, store, passes, toolTracker, prune, collect >>
    /\ UNCHANGED << requestVars, persistVars >>

\* cacheToolParametersFromInput(input, state)
CacheFromInput(input) ==
    /\ outcome = Nothing
    /\ state' = [state EXCEPT !.toolParameters =
                     cacheToolParametersFromInput(input, @)]
    /\ outcome' = [variant |-> "cached", cache |-> "state.toolParameters",
                   before |-> state.toolParameters]
    /\ UNCHANGED << nmsgs, store, passes, toolTracker, prune, collect >>
    /\ UNCHANGED << requestVars, persistVars >>

\* trimToolParametersCache(state)
TrimToolParametersCache ==
    /\ outcome = Nothing
    /\ state' = [state EXCEPT !.toolParameters = trimToolParametersCache(@)]
    /\ outcome' = [variant |-> "trimmed", before |-> state.toolParameters]
    /\ UNCHANGED << nmsgs, store, passes, toolTracker, prune, collect >>
    /\ UNCHANGED << requestVars, persistVars >>

CacheNext ==
    \/ \E s \in Sessions : \E messages \in Prefixes(CallScript(s)) :
           CacheToolParameters(messages)
    \/ \E s \in Sessions : \E messages \in Prefixes(CallScript(s)) :
           CacheFromMessages(messages)
    \/ \E s \in Sessions : \E input \in Prefixes(CallInput(s)) :
           CacheFromInput(input)
    \/ TrimToolParametersCache
    \/ Taken

CacheSpec == Init /\ [][CacheNext]_vars

(***************************************************************************)
(* Model selection (src/lib/model-selector.ts).  A provider id is a        *)
(* sequence of tokens, so that case, blanks and a longer id around a       *)
(* provider name are told apart.                                           *)
(***************************************************************************)
PROVIDER_PRIORITY ==
    << << "openai" >>, << "anthropic" >>, << "google" >>, << "deepseek" >>,
       << "xai" >>, << "alibaba" >>, << "zai" >>, << "opencode" >> >>

\* FALLBACK_MODELS[providerID]
FALLBACK_MODELS(providerID) ==
    CASE providerID = << "openai" >> -> "gpt-5-mini"
      [] providerID = << "anthropic" >> -> "claude-haiku-4-5"
      [] providerID = << "google" >> -> "gemini-2.5-flash"
      [] providerID = << "deepseek" >> -> "deepseek-chat"
      [] providerID = << "xai" >> -> "grok-4-fast"
      [] providerID = << "alibaba" >> -> "qwen3-coder-flash"
      [] providerID = << "zai" >> -> "glm-4.5-flash"
      [] providerID = << "opencode" >> -> "big-pickle"
      [] OTHER -> ""

SKIP_PROVIDERS == {<< "github-copilot" >>, << "anthropic" >>}

\* String.prototype.trim(): the blanks at both ends are dropped.
RECURSIVE trim(_)
trim(text) ==
    IF text = << >> THEN text
    ELSE IF Head(text) = " " THEN trim(Tail(text))
    ELSE IF text[Len(text)] = " " THEN trim(SubSeq(text, 1, Len(text) - 1))
    ELSE text

\* A check that lets every provider through.
shouldSkipProviderNever(providerID) == FALSE

\* shouldSkipProvider(providerID)
shouldSkipProvider(providerID) ==
    LET normalized == trim(toLowerCase(providerID))
    IN  \E skip \in SKIP_PROVIDERS : includes(normalized, toLowerCase(skip))

\* No current model, no config model.
NoModel == [providerID |-> << >>, modelID |-> ""]
NoConfig == << >>

\* Step 3 of selectModel: the fallback of the i-th provider of the priority
\* list and of those after it.  loads holds the provider/model pairs that
\* getLanguageModel resolves for, providers those listProviders reports.
RECURSIVE selectFallback(_, _, _, _)
selectFallback(i, loads, providers, failedModelInfo) ==
    IF i > Len(PROVIDER_PRIORITY)
    THEN [ok |-> FALSE, error |-> "No available models for analysis"]
    ELSE LET providerID == PROVIDER_PRIORITY[i]
             fallbackModelID == FALLBACK_MODELS(providerID)
         IN  IF providerID \notin providers \/ fallbackModelID = ""
             THEN selectFallback(i + 1, loads, providers, failedModelInfo)
             ELSE IF << providerID, fallbackModelID >> \in loads
             THEN [ok |-> TRUE, source |-> "fallback",
                   modelInfo |-> [providerID |-> providerID,
                                  modelID |-> fallbackModelID],
                   failedModel |-> failedModelInfo]
             ELSE selectFallback(i + 1, loads, providers, failedModelInfo)

\* selectModel(currentModel, logger, configModel): configModel is the
\* configured string split at '/'.
selectModel(currentModel, configModel, loads, providers) ==
    LET configTried == configModel # NoConfig /\ Len(configModel) = 2
        configInfo == [providerID |-> configModel[1], modelID |-> configModel[2]]
        failedConfig == IF configTried THEN configInfo ELSE NoModel
        failedModelInfo == IF failedConfig # NoModel THEN failedConfig
                           ELSE currentModel
    IN  IF configTried /\ << configModel[1], configModel[2] >> \in loads
        THEN [ok |-> TRUE, source |-> "config", modelInfo |-> configInfo,
              failedModel |-> NoModel]
        ELSE IF /\ currentModel # NoModel
                /\ ~shouldSkipProvider(currentModel.providerID)
                /\ << currentModel.providerID, currentModel.modelID >> \in loads
        THEN [ok |-> TRUE, source |-> "user-model", modelInfo |-> currentModel,
              failedModel |-> NoModel]
        ELSE selectFallback(1, loads, providers, failedModelInfo)

\* Janitor.run: the cached model of the session or else the model of the
\* session info; github-copilot is dropped before selectModel is called.
currentModelInfo(cachedModelInfo, sessionModelInfo) ==
    LET chosen == IF cachedModelInfo # NoModel THEN cachedModelInfo
                  ELSE sessionModelInfo
    IN  IF chosen # NoModel /\ chosen.providerID = << "github-copilot" >>
        THEN NoModel ELSE chosen

\* The models a session can be on and the configured models.
SessionModels ==
    {NoModel,
     [providerID |-> << "openai" >>, modelID |-> "gpt-5"],
     [providerID |-> << " ", "Anthropic" >>, modelID |-> "claude-sonnet-4-5"],
     [providerID |-> << "github-copilot" >>, modelID |-> "gpt-5"],
     [providerID |-> << "github-copilot", "-enterprise" >>, modelID |-> "gpt-5"]}

ConfigModels == {NoConfig, << "gpt-5" >>, << << "openai" >>, "gpt-5" >>}

\* The provider/model pairs that may or may not load.
Loadable ==
    {<< << "openai" >>, "gpt-5" >>,
     << << " ", "Anthropic" >>, "claude-sonnet-4-5" >>,
     << << "github-copilot" >>, "gpt-5" >>,
     << << "github-copilot", "-enterprise" >>, "gpt-5" >>,
     << << "anthropic" >>, "claude-haiku-4-5" >>,
     << << "opencode" >>, "big-pickle" >>}

\* The providers listProviders may report.
Authenticated == {<< "anthropic" >>, << "opencode" >>}

\* selectModel called with a current model and a configured model.
SelectModel(currentModel, configModel, loads, providers) ==
    /\ outcome = Nothing
    /\ outcome' = [variant |-> "select", currentModel |-> currentModel,
                   configModel |-> configModel, loads |-> loads,
                   providers |-> providers,
                   result |-> selectModel(currentModel, configModel, loads,
                                          providers)]
    /\ UNCHANGED << nmsgs, store, passes, toolTracker, prune, collect >>
    /\ UNCHANGED << requestVars, persistVars, state >>

\* Janitor.run selects the model of its pass: no configured model is
\* passed on.
JanitorSelect(cachedModelInfo, sessionModelInfo, loads, providers) ==
    /\ outcome = Nothing
    /\ LET current == currentModelInfo(cachedModelInfo, sessionModelInfo)
       IN  outcome' = [variant |-> "select", currentModel |-> current,
                       configModel |-> NoConfig, loads |-> loads,
                       providers |-> providers,
                       cached |-> cachedModelInfo, session |-> sessionModelInfo,
                       result |-> selectModel(current, NoConfig, loads, providers)]
    /\ UNCHANGED << nmsgs, store, passes, toolTracker, prune, collect >>
    /\ UNCHANGED << requestVars, persistVars, state >>

SelectNext ==
    \/ /\ outcome = Nothing
       /\ \E currentModel \in SessionModels, configModel \in ConfigModels :
              \E loads \in SUBSET Loadable, providers \in SUBSET Authenticated :
                  SelectModel(currentModel, configModel, loads, providers)
    \/ /\ outcome = Nothing
       /\ \E cachedModelInfo \in SessionModels :
              \E sessionModelInfo \in {NoModel, CHOOSE m \in SessionModels :
                                                  m.providerID = << "openai" >>} :
                  \E loads \in SUBSET Loadable, providers \in SUBSET Authenticated :
                      JanitorSelect(cachedModelInfo, sessionModelInfo, loads,
                                    providers)
    \/ Taken

SelectSpec == Init /\ [][SelectNext]_vars

(***************************************************************************)
(* ensureSessionRestored (src/lib/state/index.ts): the first touch of a    *)
(* session loads its persisted record into the plugin state.  The session  *)
(* is marked restored before the load is awaited, and the load is one      *)
(* entry of pending until it settles.                                      *)
(***************************************************************************)
\* state.prunedIds.has(sessionId).
mapHas(m, key) == key \in Range(m.keys)

\* What a caller reads from memory: state.prunedIds.get(sessionId) ?? [].
prunedIdsOf(st, s) ==
    IF mapHas(st.prunedIds, s) THEN st.prunedIds.value[s] ELSE << >>

\* state.prunedIds.set(sessionId, ids).
prunedIdsSet(st, s, ids) ==
    [st EXCEPT !.prunedIds = [keys |-> mapSet(@.keys, s),
                              value |-> [@.value EXCEPT ![s] = ids]]]

\* state.stats.set(sessionId, stats).
statsSet(st, s, sessionStats) ==
    [st EXCEPT !.stats = [keys |-> mapSet(@.keys, s),
                          value |-> [@.value EXCEPT ![s] = sessionStats]]]

\* loadSessionState: the record storage holds for the session, or null.
\* Two sessions have a record and one has none.
loadSessionState(s) ==
    CASE s = "ses_main" -> [found |-> TRUE, prunedIds |-> << << "call_", "a" >> >>,
                            stats |-> "persisted"]
      [] s = "ses_old" -> [found |-> TRUE,
                           prunedIds |-> << << "call_", "a" >>, << "call_", "q" >> >>,
                           stats |-> "persisted"]
      [] OTHER -> [found |-> FALSE]

\* A restore that puts the record in memory whatever memory holds.
LoadSettledOverwriting(p) ==
    /\ outcome = Nothing
    /\ BagIn(p, pending) /\ p.kind = "load"
    /\ LET record == loadSessionState(p.sid)
       IN  /\ state' = IF record.found
                       THEN statsSet(prunedIdsSet(state, p.sid, record.prunedIds),
                                     p.sid, record.stats)
                       ELSE state
           /\ outcome' = [variant |-> "restored", sid |-> p.sid, loaded |-> TRUE,
                          prunedIds |-> prunedIdsOf(state', p.sid),
                          stats |-> state'.stats.value[p.sid]]
    /\ pending' = pending (-) SetToBag({p})
    /\ UNCHANGED << nmsgs, store, passes >>
    /\ UNCHANGED << toolTracker, prune, collect >>
    /\ UNCHANGED << requestVars, stats, persisted >>

\* The call returned to its caller, who reads the session's ids from memory.
Restored(st, s, loaded) ==
    [variant |-> "restored", sid |-> s, loaded |-> loaded,
     prunedIds |-> prunedIdsOf(st, s),
     stats |-> st.stats.value[s]]

\* ensureSessionRestored up to its await: a session already marked returns
\* at once, any other is marked and its load begins.
EnsureSessionRestored(s) ==
    /\ outcome = Nothing
    /\ IF s \in state.restoredSessions
       THEN /\ outcome' = Restored(state, s, FALSE)
            /\ UNCHANGED << state, pending >>
       ELSE /\ state' = [state EXCEPT !.restoredSessions = @ \cup {s}]
            /\ pending' = pending (+) SetToBag({[kind |-> "load", sid |-> s]})
            /\ UNCHANGED outcome
    /\ UNCHANGED << nmsgs, store, passes >>
    /\ UNCHANGED << toolTracker, prune, collect >>
    /\ UNCHANGED << requestVars, stats, persisted >>

\* ensureSessionRestored after its await: the record, if there is one, is
\* put in memory unless memory already has an entry for the session.
LoadSettled(p) ==
    /\ outcome = Nothing
    /\ BagIn(p, pending) /\ p.kind = "load"
    /\ LET record == loadSessionState(p.sid)
           withIds == IF record.found /\ ~mapHas(state.prunedIds, p.sid)
                      THEN prunedIdsSet(state, p.sid, record.prunedIds)
                      ELSE state
       IN  /\ state' = IF record.found /\ ~mapHas(state.stats, p.sid)
                       THEN statsSet(withIds, p.sid, record.stats)
                       ELSE withIds
           /\ outcome' = Restored(state', p.sid, TRUE)
    /\ pending' = pending (-) SetToBag({p})
    /\ UNCHANGED << nmsgs, store, passes >>
    /\ UNCHANGED << toolTracker, prune, collect >>
    /\ UNCHANGED << requestVars, stats, persisted >>

\* A caller that touched the session merges a new id into what it read and
\* sets the result, which replaces the in-memory copy.
MergeAndSet(s, id) ==
    /\ outcome = Nothing
    /\ s \in state.restoredSessions
    /\ id \notin Range(prunedIdsOf(state, s))
    /\ state' = prunedIdsSet(state, s, Append(prunedIdsOf(state, s), id))
    /\ UNCHANGED << nmsgs, store, passes, outcome >>
    /\ UNCHANGED << toolTracker, prune, collect >>
    /\ UNCHANGED << requestVars, persistVars >>

\* A caller that touched the session sets its stats, after a pass that
\* pruned.
StatsSet(s) ==
    /\ outcome = Nothing
    /\ s \in state.restoredSessions
    /\ prunedIdsOf(state, s) # << >>
    /\ state.stats.value[s] # "written"
    /\ state' = statsSet(state, s, "written")
    /\ UNCHANGED << nmsgs, store, passes, outcome >>
    /\ UNCHANGED << toolTracker, prune, collect >>
    /\ UNCHANGED << requestVars, persistVars >>

RestoreNext ==
    \/ \E s \in Hosted : EnsureSessionRestored(s)
    \/ \E p \in BagToSet(pending) : LoadSettled(p)
    \/ \E s \in Hosted : MergeAndSet(s, << "call_", "b" >>)
    \/ \E s \in Hosted : StatsSet(s)
    \/ Taken

RestoreSpec == Init /\ [][RestoreNext]_vars

(***************************************************************************)
(* Janitor.run on one transcript: the computations of a pass between its   *)
(* read of the stored ids and its write, for transcripts, stored sets and  *)
(* decisions of every shape.                                               *)
(***************************************************************************)
\* The parts transcripts are made of: two batch tools, two prefixed calls
\* (one to a protected tool), one plain call and a text part.  Ids come as
\* the host emits them, some in upper case.
PartPool ==
    {TextPart,
     ToolPart(<< "batch_", "1" >>, "batch"),
     ToolPart(<< "batch_", "B" >>, "batch"),
     ToolPart(<< "PRT_", "1" >>, "read"),
     ToolPart(<< "prt_", "2" >>, "task"),
     ToolPart(<< "call_", "A" >>, "read")}

\* A call id no part of any transcript has.
UnknownId == << "call_", "Q" >>

\* The transcripts: every part at most once (call ids are unique).
RECURSIVE PartLists(_)
PartLists(n) ==
    IF n = 0 THEN {<< >>}
    ELSE LET shorter == PartLists(n - 1)
         IN  shorter \cup {Append(ps, p) : ps \in shorter, p \in PartPool}

AnalysedTranscripts ==
    {ps \in PartLists(MaxParts) :
        \A i, j \in DOMAIN ps : ps[i] = ps[j] => i = j}

\* What stateManager.get answered.
StoredBefore == {{}, {<< "call_", "a" >>}, {<< "prt_", "1" >>}}

\* What the decision call may return for a transcript: ids as emitted, and
\* an id of no call.
ReturnedIds(parts) ==
    {parts[i].callID : i \in {j \in DOMAIN parts : parts[j].type = "tool"}}
        \cup {UnknownId}

\* The pass from the candidates to the set it hands to stateManager.set.
Analyse(parts, alreadyPrunedIds, decision) ==
    /\ outcome = Nothing
    /\ LET candidates == prunableToolCallIds(parts, alreadyPrunedIds)
           children == batchToolChildren(parts)
           expanded == expandedPrunedIds(decision, children)
       IN  outcome' = IF candidates = << >>
                      THEN [variant |-> "no-candidates", parts |-> parts,
                            already |-> alreadyPrunedIds]
                      ELSE [variant |-> "analysed", parts |-> parts,
                            already |-> alreadyPrunedIds,
                            candidates |-> candidates,
                            children |-> children,
                            decision |-> decision,
                            expanded |-> expanded,
                            newly |-> newlyPrunedIds(expanded, alreadyPrunedIds),
                            final |-> allPrunedIds(alreadyPrunedIds, expanded)]
    /\ UNCHANGED << nmsgs, store, passes >>
    /\ UNCHANGED << toolTracker, prune, collect >>
    /\ UNCHANGED << requestVars, persistVars, state >>

AnalysisNext ==
    \/ /\ outcome = Nothing
       /\ \E parts \in AnalysedTranscripts, alreadyPrunedIds \in StoredBefore :
              \E decision \in {d \in SUBSET ReturnedIds(parts) :
                                   Cardinality(d) <= MaxDecision} :
                  Analyse(parts, alreadyPrunedIds, decision)
    \/ Taken

AnalysisSpec == Init /\ [][AnalysisNext]_vars

(***************************************************************************)
(* The pruning tool, the tracker and the idle event together: the tool     *)
(* sets toolTracker.skipNextIdle, the nudge injection clears it, and the   *)
(* event hook starts the janitor.                                          *)
(***************************************************************************)
IdleNext ==
    \/ \E s \in Sessions, lookupOk \in BOOLEAN : PruneTool(s, lookupOk)
    \/ \E result \in ToolResults : PruneToolSettled(result)
    \/ \E messages \in Prefixes(ChatScript) : InjectNudge(messages)
    \/ \E s \in Sessions, lookupOk \in BOOLEAN : IdleEvent(s, lookupOk)
    \/ \E r \in Running, ok \in BOOLEAN : RunFetch(r, ok)
    \/ \E r \in Running : RunRead(r)
    \/ \E r \in Running : \E decision \in SingleDecisions(r.sid) : RunDecide(r, decision)
    \/ \E r \in Running : RunToast(r)
    \/ Taken

IdleSpec == Init /\ [][IdleNext]_vars

(***************************************************************************)
(* The three fetch wrappers on any init the transport may be handed: no    *)
(* body, a body that is no string, a string that is no JSON, and JSON      *)
(* whose messages field is absent, an array or something else.             *)
(***************************************************************************)
\* What JSON.parse makes of a body string: it throws, or gives an object.
Unparsable == [type |-> "unparsable"]
JsonObject(messages) == [type |-> "object", messages |-> messages]

\* The messages field of a parsed body.
NoMessages == [type |-> "undefined"]
NotAnArray == [type |-> "string"]
MessageArray(items) == [type |-> "array", items |-> items]

\* init.body: absent, not a string, or a string with its spacing and what
\* it parses to.
NoInitBody == [type |-> "absent"]
BinaryBody == [type |-> "binary"]
BodyString(spacing, json) == [type |-> "string", spacing |-> spacing, json |-> json]

\* JSON.stringify(body): the compact string of the value.
JSONstringify(json) == BodyString("compact", json)

\* body.messages && Array.isArray(body.messages)
isMessageArray(json) == json.type = "object" /\ json.messages.type = "array"

\* prunedThisRequest / replacedCount of a map over the messages.
replacedIn(before, after) ==
    Cardinality({i \in DOMAIN before : before[i] # after[i]})

\* The wrapper chat.params puts around the session's fetch.  The answer is
\* the init handed to existingFetch and how often it was called; a throw
\* outside the try blocks rejects the call before existingFetch is reached.
pruningFetch(body, prunedIds) ==
    LET parsedBody == IF body.type = "string" /\ body.json # Unparsable
                      THEN body.json ELSE Unparsable
        truthyMessages == parsedBody # Unparsable /\ parsedBody.messages # NoMessages
    IN  IF truthyMessages /\ parsedBody.messages.type # "array"
        THEN [called |-> 0, threw |-> TRUE, body |-> body, replaced |-> 0]
        ELSE IF prunedIds = {} \/ body.type = "absent"
        THEN [called |-> 1, threw |-> FALSE, body |-> body, replaced |-> 0]
        ELSE IF parsedBody = Unparsable
        THEN [called |-> 1, threw |-> FALSE, body |-> body, replaced |-> 0]
        ELSE IF ~isMessageArray(parsedBody)
        THEN [called |-> 1, threw |-> FALSE, body |-> body, replaced |-> 0]
        ELSE LET mapped == mapPrunedSession(parsedBody.messages.items, prunedIds)
                 prunedThisRequest == replacedIn(parsedBody.messages.items, mapped)
             IN  [called |-> 1, threw |-> FALSE, replaced |-> prunedThisRequest,
                  body |-> IF prunedThisRequest > 0
                           THEN JSONstringify(JsonObject(MessageArray(mapped)))
                           ELSE body]

\* The global wrapper of part_006: everything before the call of
\* originalGlobalFetch is inside one try.
globalFetch(body, allPruned, listOk) ==
    IF body.type # "string" \/ body.json = Unparsable
       \/ ~isMessageArray(body.json) \/ ~listOk
    THEN [called |-> 1, threw |-> FALSE, body |-> body, replaced |-> 0]
    ELSE LET messages == body.json.messages.items
             mapped == rewriteGlobal(messages, allPruned)
             replacedCount == replacedIn(messages, mapped)
         IN  [called |-> 1, threw |-> FALSE, replaced |-> replacedCount,
              body |-> IF replacedCount > 0
                       THEN JSONstringify(JsonObject(MessageArray(mapped)))
                       ELSE body]

\* The global wrapper of src/index.ts, which only caches tool parameters.
cachingFetch(body) == [called |-> 1, threw |-> FALSE, body |-> body, replaced |-> 0]

\* A tool_result block and a functionResponse part with their payloads.
ToolResultBlockWith(id, tool) ==
    [content |-> << "output" >>] @@ ToolResultBlock(id, tool)
FunctionResponseWith(id, name) ==
    [functionResponse |-> [name |-> name, id |-> id, response |-> << "output" >>]]

\* One request in each of the other wire formats the tracker reads: an
\* inline tool_result block in a user entry of body.messages, a
\* function_call_output item in body.input and a functionResponse part in
\* body.contents, each the result of call_a.
BlocksBody ==
    JsonObject(MessageArray(
        << UserMessage,
           ToolResultBlocks(<< ToolResultBlockWith(<< "call_", "a" >>, "read") >>) >>))
ResponsesBody ==
    [type |-> "object", messages |-> NoMessages,
     input |-> MessageArray(<< InputMessage,
                               FunctionCallOutput(<< "call_", "a" >>, "read", "read") >>)]
GeminiBody ==
    [type |-> "object", messages |-> NoMessages,
     contents |-> MessageArray(
         << [role |-> "user", parts |-> << [text |-> << "text" >>] >>],
            [role |-> "user",
             parts |-> << FunctionResponseWith(<< "call_", "a" >>, "read") >>] >>)]

\* The inits of the model.
WrappedBodies ==
    {NoInitBody, BinaryBody}
        \cup {BodyString("compact", json) :
                 json \in {BlocksBody, ResponsesBody, GeminiBody}}
        \cup {BodyString(spacing, json) :
                 spacing \in {"compact", "pretty"},
                 json \in {Unparsable, JsonObject(NoMessages), JsonObject(NotAnArray)}
                              \cup {JsonObject(MessageArray(Bodies["ses_main"][n])) :
                                       n \in 0 .. Len(Script("ses_main"))}}

\* What stateManager.get answers.
PrunedSets ==
    {{}, {<< "call_", "a" >>}, {<< "batch_", "1" >>},
     {<< "batch_", "1" >>, << "prt_", "1" >>}}

Wrapped(wrapper, body, prunedIds, result) ==
    [variant |-> "wrapped", wrapper |-> wrapper, orig |-> body,
     pruned |-> prunedIds, called |-> result.called, threw |-> result.threw,
     body |-> result.body, replaced |-> result.replaced]

PruningFetch(body, prunedIds) ==
    /\ outcome = Nothing
    /\ outcome' = Wrapped("pruning-fetch", body, prunedIds, pruningFetch(body, prunedIds))
    /\ toolParametersCache' =
           IF body.type = "string" /\ body.json # Unparsable /\ isMessageArray(body.json)
           THEN cacheToolParametersFromMessages(body.json.messages.items,
                                                toolParametersCache)
           ELSE toolParametersCache
    /\ UNCHANGED << nmsgs, store, passes, toolTracker, prune, collect >>
    /\ UNCHANGED << request, persistVars, state >>

GlobalFetchPruning(body, allPruned, listOk) ==
    /\ outcome = Nothing
    /\ outcome' = Wrapped("fetch", body, IF listOk THEN allPruned ELSE {},
                          globalFetch(body, allPruned, listOk))
    /\ UNCHANGED << nmsgs, store, passes, toolTracker, prune, collect >>
    /\ UNCHANGED << requestVars, persistVars, state >>

GlobalFetchCaching(body) ==
    /\ outcome = Nothing
    /\ outcome' = Wrapped("global-fetch", body, {}, cachingFetch(body))
    /\ UNCHANGED << nmsgs, store, passes, toolTracker, prune, collect >>
    /\ UNCHANGED << requestVars, persistVars, state >>

WrapNext ==
    \/ \E body \in WrappedBodies, prunedIds \in PrunedSets : PruningFetch(body, prunedIds)
    \/ \E body \in WrappedBodies, allPruned \in PrunedSets, listOk \in BOOLEAN :
           GlobalFetchPruning(body, allPruned, listOk)
    \/ \E body \in WrappedBodies : GlobalFetchCaching(body)
    \/ Taken

WrapSpec == Init /\ [][WrapNext]_vars

(***************************************************************************)
(* Properties.                                                             *)
(***************************************************************************)
\* The step just taken handed a request to the underlying fetch.
IsRequest == outcome.variant \in {"plain", "session", "global"}

\* The step just taken went through one of the two rewriters.
IsRewritten == outcome.variant \in {"session", "global"}

\* The step just taken was the stateManager.set of an analysis pass.
IsWrite == outcome.variant = "write"

\* Entry i of the request was replaced by the placeholder.
Replaced(i) ==
    /\ outcome.body[i].content = Placeholder
    /\ outcome.orig[i].content # Placeholder

\* The tool name the host recorded for a stored id of session s.
ToolOf(s, id) == toolMetadata(PartsOf(s, Len(Script(s))), id)

(***************************************************************************)
(* C1.  Rewriting an outbound request never deletes, adds or reorders      *)
(* entries: the body handed to the underlying fetch has the length of the  *)
(* body the host sent, and the entry at each index is the original entry   *)
(* of that index (same role, call id and tool name).                       *)
(***************************************************************************)
C1_RewritePreservesEntries ==
    IsRequest =>
        /\ Len(outcome.body) = Len(outcome.orig)
        /\ \A i \in DOMAIN outcome.orig :
               /\ i \in DOMAIN outcome.body
               /\ outcome.body[i].role = outcome.orig[i].role
               /\ outcome.body[i].tool_call_id = outcome.orig[i].tool_call_id
               /\ outcome.body[i].name = outcome.orig[i].name

\* A request of several entries in which the per-session wrapper replaced a
\* tool result that is followed by further entries.
C1_Witness ==
    /\ outcome.variant = "session"
    /\ \E i \in DOMAIN outcome.orig :
           /\ i < Len(outcome.orig)
           /\ i \in DOMAIN outcome.body
           /\ Replaced(i)

(***************************************************************************)
(* C2.  In a rewritten request a role=tool entry carries the placeholder   *)
(* if and only if its normalized call id is in the prune set used for the  *)
(* request; such an entry differs from the original in content only, and   *)
(* every other entry is identical to the original.                         *)
(***************************************************************************)
C2_PlaceholderIffPruned ==
    IsRewritten =>
        \A i \in DOMAIN outcome.orig :
            IF /\ outcome.orig[i].role = "tool"
               /\ toLowerCase(outcome.orig[i].tool_call_id) \in outcome.pruned
            THEN outcome.body[i] = [outcome.orig[i] EXCEPT !.content = Placeholder]
            ELSE outcome.body[i] = outcome.orig[i]

(***************************************************************************)
(* C3.  Once an analysis pass of a (non-subagent) session S has stored the *)
(* pruned set P, a request of S intercepted by the per-session wrapper     *)
(* while P is stored shows the placeholder for every tool result whose id  *)
(* is in P and leaves the tool results with ids outside P unchanged.       *)
(***************************************************************************)
C3_StoredSetShownInNextRequest ==
    outcome.variant = "session" /\ ParentID(outcome.sid) = "" =>
        \A i \in DOMAIN outcome.orig :
            outcome.orig[i].role = "tool" =>
                IF toLowerCase(outcome.orig[i].tool_call_id) \in store[outcome.sid]
                THEN outcome.body[i].content = Placeholder
                ELSE outcome.body[i].content = outcome.orig[i].content

(***************************************************************************)
(* C4.  As claimed: every write of a session's prunedIds stores a set at   *)
(* least as large as the one it replaces, also when the read and write     *)
(* steps of several passes interleave.                                     *)
(***************************************************************************)
C4_WriteNeverShrinks ==
    IsWrite => Cardinality(store[outcome.sid]) >= Cardinality(outcome.before)

(***************************************************************************)
(* C4, amended.  Every write stores a superset of the set the writing pass *)
(* read, hence a set at least as large as the one it replaces whenever no  *)
(* other write to the session came between the pass's read and its write.  *)
(***************************************************************************)
C4_WriteKeepsWhatItRead ==
    IsWrite =>
        /\ outcome.already \subseteq store[outcome.sid]
        /\ Cardinality(store[outcome.sid]) >= Cardinality(outcome.already)
        /\ outcome.already = outcome.before =>
               Cardinality(store[outcome.sid]) >= Cardinality(outcome.before)

\* A pass that read a non-empty set, was not overtaken, and stored more.
C4_Witness ==
    /\ IsWrite
    /\ outcome.before # {}
    /\ outcome.already = outcome.before
    /\ Cardinality(store[outcome.sid]) > Cardinality(outcome.before)

(***************************************************************************)
(* C5.  The read-merge-write is not atomic: a write stores what the pass   *)
(* read merged with what it decided, whatever the store holds by then      *)
(* (last writer wins); the witness is the lost update itself.              *)
(***************************************************************************)
C5_LastWriterWins ==
    IsWrite => store[outcome.sid] = outcome.already \cup outcome.expanded

\* Two passes read the empty set before either wrote; the first stored ids
\* that the write of the second, which prunes other ids, has just removed.
C5_Witness ==
    /\ IsWrite
    /\ outcome.already = {}
    /\ outcome.expanded # {}
    /\ outcome.before # {}
    /\ outcome.before \ store[outcome.sid] # {}

(***************************************************************************)
(* C6.  No call id of a tool named in protectedTools is ever in a          *)
(* session's stored prunedIds, whatever the decision call returns and      *)
(* whatever batch groups are expanded.                                     *)
(***************************************************************************)
C6_ProtectedNeverStored ==
    \A s \in Sessions :
        \A id \in store[s] : ToolOf(s, id) \notin protectedTools

(***************************************************************************)
(* C7.  Batch closure: whenever a stored prune set holds the id of a batch *)
(* tool, it holds every id recorded as a child of that batch tool when the *)
(* transcript was collected.                                               *)
(***************************************************************************)
C7_BatchClosure ==
    \A s \in Sessions :
        LET ch == CollectedChildren[s][nmsgs[s]]
        IN  \A b \in DOMAIN ch :
                b \in store[s] => Range(ch[b]) \subseteq store[s]

\* A pass has just stored a batch tool that has children, and with it them.
C7_Witness ==
    /\ IsWrite
    /\ \E b \in DOMAIN CollectedChildren[outcome.sid][nmsgs[outcome.sid]] :
           /\ b \in store[outcome.sid]
           /\ b \notin outcome.before
           /\ childrenOf(CollectedChildren[outcome.sid][nmsgs[outcome.sid]], b) # {}

C9_Idempotent ==
    \A s \in Sessions : \A id \in RawIds(s) \cup NormIds(s) :
        toLowerCase(toLowerCase(id)) = toLowerCase(id)

\* A pass offers no candidate whose id, lowercased, it has read as pruned.
C9_Orchestrator ==
    \A r \in Running :
        r.pc = "analyse" =>
            \A id \in RawIds(r.sid) :
                toLowerCase(id) \in r.already =>
                    toLowerCase(id) \notin
                        Range(prunableToolCallIds(PartsOf(r.sid, r.n), r.already))

\* A rewriter shows as pruned every tool result whose wire id equals an id
\* of its prune set up to letter case.
C9_Rewriter ==
    IsRewritten =>
        \A i \in DOMAIN outcome.orig :
            /\ outcome.orig[i].role = "tool"
            /\ \E p \in outcome.pruned :
                   toLowerCase(p) = toLowerCase(outcome.orig[i].tool_call_id)
            => outcome.body[i].content = Placeholder

(***************************************************************************)
(* C9.  Call ids are compared case-insensitively everywhere: lowercasing   *)
(* is idempotent, a tool result whose wire id differs only by case from a  *)
(* stored id is shown as pruned by both rewriters, and is not a candidate  *)
(* of the orchestrator again.                                              *)
(***************************************************************************)
C9_CaseInsensitiveEverywhere ==
    C9_Idempotent /\ C9_Orchestrator /\ C9_Rewriter

(***************************************************************************)
(* C10.  When a step of an analysis pass fails (transcript retrieval,      *)
(* model selection, the decision call), run() returns: the failure is      *)
(* handed to the log only, the session's stored set is what it was, the    *)
(* failed call is no longer in flight and an idle event can start a new    *)
(* pass.                                                                   *)
(***************************************************************************)
C10_FailureStoresNothing ==
    outcome.variant = "failed" =>
        /\ store[outcome.sid] = outcome.before
        /\ BagCardinality(passes) < MaxPasses

\* The decision call of a pass that had read a non-empty set has failed.
C10_Witness ==
    /\ outcome.variant = "failed"
    /\ outcome.step = "decide"
    /\ outcome.before # {}

\* The pass ended early at one of its two tests.
IsSkipped == outcome.variant = "skipped"

(***************************************************************************)
(* C11.  A pass whose transcript has fewer than 3 messages, or that is     *)
(* left without candidates once already-pruned and protected ids are       *)
(* removed, ends with no side effects: it returns with the stored set      *)
(* untouched, and no pass is ever waiting for a decision without having    *)
(* read at least 3 messages and at least one candidate.                    *)
(***************************************************************************)
C11_EarlyExitNoSideEffects ==
    /\ IsSkipped =>
           /\ store[outcome.sid] = outcome.before
           /\ BagCardinality(passes) < MaxPasses
           /\ outcome.why = "messages" => nmsgs[outcome.sid] < 3
    /\ \A r \in Running :
           /\ r.pc \in {"read", "analyse"} => r.n >= 3
           /\ r.pc = "analyse" =>
                  prunableToolCallIds(PartsOf(r.sid, r.n), r.already) # << >>

\* A pass found every candidate of a session with stored ids already pruned
\* or protected, and returned.
C11_Witness ==
    /\ IsSkipped
    /\ outcome.why = "candidates"
    /\ outcome.before # {}

(***************************************************************************)
(* C12.  A successful pass stores exactly alreadyPruned \cup expanded      *)
(* (what it read from the store, and its batch-expanded decision); what it *)
(* reports as newly pruned is expanded minus alreadyPruned, and no id of   *)
(* alreadyPruned is dropped by the write.                                  *)
(***************************************************************************)
C12_StoresUnionReportsDelta ==
    IsWrite =>
        /\ store[outcome.sid] = outcome.already \cup outcome.expanded
        /\ outcome.newly = outcome.expanded \ outcome.already
        /\ outcome.newly \cup outcome.already = store[outcome.sid]
        /\ outcome.newly \cap outcome.already = {}
        /\ \A id \in outcome.already : id \in store[outcome.sid]

\* The decision repeated an id the pass had read as pruned and added one.
C12_Witness ==
    /\ IsWrite
    /\ outcome.already \cap outcome.expanded # {}
    /\ outcome.newly # {}

\* C14: the ids a rewriter applied to one request are the stored prune state
\* as it was at one single instant of the call: for the per-session wrapper
\* the session's stored ids as they are when the request is handed on, for
\* the global wrapper one of the values the union over all top-level
\* sessions had while the wrapper call was running.
C14_RewriteAppliesOneInstant ==
    IsRewritten =>
        IF outcome.variant = "global"
        THEN outcome.pruned \in outcome.instants
        ELSE outcome.pruned = store[outcome.sid]

IsScan == outcome.variant = "scan"

\* The step just taken was the pruning tool's continuation.
IsPruned == outcome.variant = "pruned"

\* The tool results a request body carries, each with its call id
\* (lowercased; for content/parts its position) and the tool that made it.
ResultsIn(format, body) ==
    CASE format = "openai" ->
             {[id |-> toLowerCase(body[i].tool_call_id), tool |-> body[i].tool] :
                  i \in {j \in DOMAIN body : body[j].role = "tool"}}
             \cup UNION {{[id |-> toLowerCase(body[i].parts[k].tool_use_id),
                           tool |-> body[i].parts[k].tool] :
                              k \in DOMAIN body[i].parts} :
                          i \in {j \in DOMAIN body : "parts" \in DOMAIN body[j]}}
      [] format = "responses" ->
             {[id |-> toLowerCase(body[i].call_id), tool |-> body[i].tool] :
                  i \in {j \in DOMAIN body : body[j].type = "function_call_output"}}
      [] format = "gemini" ->
             UNION {{[id |-> << i, k >>,
                      tool |-> LowerTok(body[i].parts[k].functionResponse.name)] :
                         k \in {l \in DOMAIN body[i].parts :
                                   "functionResponse" \in DOMAIN body[i].parts[l]}} :
                    i \in DOMAIN body}

\* The entry a nudge adds to a body of the given format.
IsNudgeEntry(format, entry) ==
    IF format = "gemini" THEN entry.parts = << [text |-> nudgeText] >>
    ELSE entry.role = "user" /\ entry.content = nudgeText

\* C15: a request gets the nudge entry appended, as its last entry and with
\* nothing else changed, exactly when the tracker's count, the request's new
\* results included, is strictly greater than the frequency; so once the
\* count was above the frequency before a request, that request is nudged
\* too, and at or below the frequency the body is left as it was.
C15_NudgeIffCountExceedsFreq ==
    IsScan =>
        /\ outcome.nudged <=> toolTracker.toolResultCount > nudge_freq
        /\ outcome.before.toolResultCount > nudge_freq => outcome.nudged
        /\ outcome.nudged =>
               /\ Len(outcome.body) = Len(outcome.orig) + 1
               /\ SubSeq(outcome.body, 1, Len(outcome.orig)) = outcome.orig
               /\ IsNudgeEntry(outcome.format, outcome.body[Len(outcome.body)])
        /\ ~outcome.nudged => outcome.body = outcome.orig

\* A request that brings nothing new is nudged because the count was
\* already above the frequency.
C15_Witness ==
    /\ IsScan /\ outcome.nudged
    /\ outcome.before.toolResultCount > nudge_freq
    /\ toolTracker.toolResultCount = outcome.before.toolResultCount

\* C16: scanning a request body never lowers toolResultCount, and the
\* pruning tool's continuation changes it only to zero and only when the
\* prune returned a result that pruned something; a prune that returned no
\* result or pruned nothing leaves the count as it was.
C16_ResetOnlyAfterSuccessfulPrune ==
    /\ IsScan => toolTracker.toolResultCount >= outcome.before.toolResultCount
    /\ IsPruned =>
           IF outcome.result.returned /\ outcome.result.prunedCount > 0
           THEN toolTracker.toolResultCount \in {0, outcome.before.toolResultCount}
           ELSE toolTracker.toolResultCount = outcome.before.toolResultCount

\* C17: in the chat-completions and flat-item formats a scan raises the
\* count by the number of distinct lowercased call ids of the body that had
\* not been seen before, and all of them are seen afterwards: an id already
\* seen, in whatever case and whatever entry shape, is not counted again.
C17_CountedAtMostOnce ==
    IsScan /\ outcome.format \in {"openai", "responses"} =>
        LET ids == {r.id : r \in ResultsIn(outcome.format, outcome.orig)}
        IN  /\ toolTracker.toolResultCount - outcome.before.toolResultCount
                   = Cardinality(ids \ outcome.before.seenToolResultIds)
            /\ toolTracker.seenToolResultIds
                   = outcome.before.seenToolResultIds \cup ids

\* A chat-completions body repeats, in upper case, an id that was seen, and
\* nothing is counted.
C17_Witness ==
    /\ IsScan /\ outcome.format = "openai"
    /\ \E i \in DOMAIN outcome.orig :
           outcome.orig[i].tool_call_id = <<"CALL_", "A">>
    /\ <<"call_", "a">> \in outcome.before.seenToolResultIds
    /\ outcome.before.toolResultCount > 0
    /\ toolTracker.toolResultCount = outcome.before.toolResultCount

\* The pseudo-ids the tracker holds.
PseudoIds(tracker) == {id \in tracker.seenToolResultIds : id[1] = "gemini:"}

\* C18: function-response parts get distinct pseudo-ids within one scan
\* (a first scan counts every part of the body once), and each part is
\* counted once over all scans: the tracker never holds more pseudo-ids
\* than the conversation has function-response parts.
C18_PseudoIdsCountedOnce ==
    /\ IsScan /\ outcome.format = "gemini" /\ PseudoIds(outcome.before) = {} =>
           Cardinality(PseudoIds(toolTracker))
               = Cardinality(ResultsIn("gemini", outcome.orig))
    /\ Cardinality(PseudoIds(toolTracker))
           <= Cardinality(ResultsIn("gemini", GeminiScript))

\* C19 as stated: after a scan of a body that carries a result of a tool
\* other than the pruning tool, skipNextIdle is false.
C19_OtherToolResultClearsSkip ==
    IsScan /\ (\E r \in ResultsIn(outcome.format, outcome.orig) :
                   r.tool # "context_pruning")
        => ~toolTracker.skipNextIdle

\* The results of the scanned body that the scan counts as new: in the
\* content/parts format every part, otherwise those whose id was not seen.
CountedAsNew ==
    IF outcome.format = "gemini" THEN ResultsIn(outcome.format, outcome.orig)
    ELSE {r \in ResultsIn(outcome.format, outcome.orig) :
              r.id \notin outcome.before.seenToolResultIds}

\* C19 (amended): after a scan that counts as new a result of a tool other
\* than the pruning tool, skipNextIdle is false, in each wire format.
C19_NewOtherToolResultClearsSkip ==
    IsScan /\ (\E r \in CountedAsNew : r.tool # "context_pruning")
        => ~toolTracker.skipNextIdle

\* skipNextIdle was set and a new result of another tool cleared it.
C19_Witness ==
    /\ IsScan /\ outcome.before.skipNextIdle /\ ~toolTracker.skipNextIdle
    /\ \E r \in CountedAsNew : r.tool # "context_pruning"

\* C20: with skipNextIdle set by the pruning tool, a scan of a
\* chat-completions or flat-item body whose new results are all the pruning
\* tool's own leaves skipNextIdle set.
C20_OwnResultKeepsSkip ==
    /\ IsScan /\ outcome.format \in {"openai", "responses"}
    /\ outcome.before.skipNextIdle
    /\ CountedAsNew # {}
    /\ \A r \in CountedAsNew : r.tool = "context_pruning"
    => toolTracker.skipNextIdle

\* The step just taken was an instruction injection.
IsSynth == outcome.variant = "synth"

\* The entry is a user turn of its format.
IsUserTurn(format, entry) ==
    CASE format = "openai" -> entry.role = "user"
      [] format = "gemini" -> entry.role = "user" /\ "parts" \in DOMAIN entry
      [] format = "responses" -> entry.type = "message" /\ entry.role = "user"

\* The positions at which the instruction starts in a text.
InstructionAt(text) ==
    {j \in 1 .. Len(text) : /\ j + Len(instruction) - 1 <= Len(text)
                            /\ SubSeq(text, j, j + Len(instruction) - 1) = instruction}

\* Every place of an entry where the instruction stands: part 0 is a string
\* content.
InstructionIn(entry) ==
    IF "parts" \in DOMAIN entry
    THEN UNION {{<< k, j >> : j \in InstructionAt(entry.parts[k].text)} :
                k \in {n \in DOMAIN entry.parts : "text" \in DOMAIN entry.parts[n]}}
    ELSE {<< 0, j >> : j \in InstructionAt(entry.content)}

\* How often the instruction occurs in a body.
Occurrences(messages) ==
    Cardinality(UNION {{<< i, place >> : place \in InstructionIn(messages[i])} :
                       i \in DOMAIN messages})

\* The most recent user turn that is not a nudge-only turn; 0 if none.
TargetOf(format, messages) ==
    LET genuine == {i \in DOMAIN messages :
                        /\ IsUserTurn(format, messages[i])
                        /\ ~IsNudgeEntry(format, messages[i])}
    IN  IF genuine = {} THEN 0
        ELSE CHOOSE i \in genuine : \A j \in genuine : j <= i

\* C21: instruction injection is idempotent in the three formats.  A call
\* works on the most recent user turn that is not a nudge-only turn: if
\* there is none, or that turn holds the instruction already, it returns
\* false and leaves the body as it was; otherwise it returns true and
\* changes that turn only, which then holds the instruction.  Whatever the
\* number of calls on one body with such a turn, the instruction occurs in
\* it exactly once.
C21_InjectInstructionIdempotent ==
    IsSynth =>
        LET target == TargetOf(outcome.format, outcome.orig)
            held == target # 0 /\ InstructionIn(outcome.orig[target]) # {}
        IN  /\ request.messages = outcome.body
            /\ (target = 0 \/ held)
                   => ~outcome.returned /\ outcome.body = outcome.orig
            /\ (target # 0 /\ ~held)
                   => /\ outcome.returned
                      /\ Len(outcome.body) = Len(outcome.orig)
                      /\ \A i \in DOMAIN outcome.orig :
                             i # target => outcome.body[i] = outcome.orig[i]
                      /\ InstructionIn(outcome.body[target]) # {}
            /\ target # 0 => Occurrences(outcome.body) = 1

\* A second injection on a body that has taken a nudge meanwhile found the
\* instruction in the user turn before the nudge and did nothing.
C21_Witness ==
    /\ IsSynth
    /\ ~outcome.returned
    /\ nudgeTurns(request) >= 1
    /\ Occurrences(outcome.body) = 1

\* C22: nudge injection does not insert twice.  A call on a request body
\* that found no new tool result in it (the count is what it was) leaves at
\* most one nudge turn in that body.
C22_NoDoubleNudge ==
    (IsScan /\ toolTracker.toolResultCount = outcome.before.toolResultCount)
        => nudgeTurns([format |-> outcome.format, messages |-> outcome.body]) <= 1

\* C23: a nudge is appended.  When the injection nudged, the body is the
\* body as it was with one nudge turn after its last entry; when it did
\* not, the body is as it was.
C23_NudgeIsAppended ==
    IsScan =>
        /\ request # NoBody => request.messages = outcome.body
        /\ IF outcome.nudged
           THEN /\ Len(outcome.body) = Len(outcome.orig) + 1
                /\ \A i \in DOMAIN outcome.orig : outcome.body[i] = outcome.orig[i]
                /\ IsNudgeEntry(outcome.format, outcome.body[Len(outcome.body)])
           ELSE outcome.body = outcome.orig

\* A content/parts body took a nudge after its last entry.
C23_Witness ==
    /\ IsScan
    /\ outcome.nudged
    /\ outcome.format = "gemini"
    /\ Len(outcome.orig) >= 2
    /\ request.messages = Append(outcome.orig, outcome.body[Len(outcome.body)])

\* The message indices at which a search string occurs.
MatchedMessages(locations) == {loc[1] : loc \in locations}

\* The search string occurs at exactly one location.
OneLocation(locations) == Cardinality(locations) = 1

\* The only location of a search string.
IndexOf(locations) == CHOOSE i \in MatchedMessages(locations) : TRUE

\* The squash named by the two sets of locations is valid: each string at
\* one location, the start not after the end.
ValidRange(startMatches, endMatches) ==
    /\ OneLocation(startMatches) /\ OneLocation(endMatches)
    /\ IndexOf(startMatches) <= IndexOf(endMatches)

\* C24: a squash whose start or end substring occurs at no location or at
\* two or more locations of the transcript, or whose start lies after its
\* end, is reported as an error and changes nothing: the pruned tool ids,
\* the pruned message ids, the squash summaries and the stats are as they
\* were, and nothing is written.
C24_BadRangeThrowsAndKeepsState ==
    [][\A s \in Sessions \cap TopLevel :
         \A startMatches \in Matches(nmsgs[s]), endMatches \in Matches(nmsgs[s]) :
             (/\ SquashTool(s, TRUE, startMatches, endMatches)
              /\ ~ValidRange(startMatches, endMatches))
                 => /\ outcome'.variant = "thrown"
                    /\ prune' = prune /\ stats' = stats
                    /\ pending' = pending /\ persisted' = persisted]_vars

\* C25: a valid squash succeeds.  Afterwards the call id of every tool part
\* and the id of every message at the indices from the start to the end,
\* both included, are in the prune lists, one summary anchored to the id of
\* the start message has been appended, and messagesSquashed is
\* endIndex - startIndex + 1.
C25_ValidSquashRecordsTheRange ==
    [][\A s \in Sessions \cap TopLevel :
         \A startMatches \in Matches(nmsgs[s]), endMatches \in Matches(nmsgs[s]) :
             (/\ SquashTool(s, TRUE, startMatches, endMatches)
              /\ ValidRange(startMatches, endMatches))
                 => LET startIndex == IndexOf(startMatches)
                        endIndex == IndexOf(endMatches)
                    IN  /\ outcome'.variant = "squash"
                        /\ \A i \in startIndex .. endIndex :
                               /\ messageId(s, i) \in Range(prune'.messageIds)
                               /\ \A k \in DOMAIN Script(s)[i] :
                                      Script(s)[i][k].type = "tool"
                                          => Script(s)[i][k].callID
                                                 \in Range(prune'.toolIds)
                        /\ prune'.squashSummaries =
                               Append(prune.squashSummaries,
                                      [anchorMessageId |-> messageId(s, startIndex),
                                       summary |-> "summary"])
                        /\ outcome'.messagesSquashed = endIndex - startIndex + 1]_vars

\* A second range, of several messages with tool parts, was squashed.
C25_Witness ==
    /\ outcome.variant = "squash"
    /\ outcome.messagesSquashed >= 2
    /\ Len(outcome.containedToolIds) >= 2
    /\ Len(prune.squashSummaries) = 2

\* The step just taken settled a save.
IsSaved == outcome.variant = "saved"

\* The first sequence is the beginning of the second.
IsPrefix(a, b) == Len(a) <= Len(b) /\ SubSeq(b, 1, Len(a)) = a

\* The prune lists p are all held in the prune lists q.
HeldIn(p, q) ==
    /\ IsPrefix(p.toolIds, q.toolIds)
    /\ IsPrefix(p.messageIds, q.messageIds)
    /\ IsPrefix(p.squashSummaries, q.squashSummaries)

\* C26: a failed save does not touch the session state in memory.  The
\* tool call has returned its success text when its save is started; when
\* the save fails, the prune lists and summaries in memory still hold what
\* that squash added and storage is as it was; and a save that succeeds
\* writes everything memory held when it was started, the additions of
\* squashes whose own save had failed included.
C26_FailedSaveKeepsMemory ==
    /\ outcome.variant = "squash" => BagIn(saveSessionState(prune, stats), pending)
    /\ IsSaved =>
           /\ prune = outcome.memory
           /\ HeldIn(outcome.save.prune, prune)
           /\ ~outcome.ok => persisted = outcome.before
           /\ outcome.ok => /\ persisted.saved
                            /\ HeldIn(outcome.save.prune, persisted.prune)
                            /\ HeldIn(persisted.prune, prune)

\* The save of a second squash succeeded after the save of the first had
\* failed: storage, empty until then, now holds both ranges.
C26_Witness ==
    /\ IsSaved /\ outcome.ok
    /\ ~outcome.before.saved
    /\ pending = EmptyBag
    /\ Len(outcome.save.prune.squashSummaries) = 2
    /\ Len(persisted.prune.squashSummaries) = 2
    /\ persisted.prune.toolIds # << >>

\* C27: the tool-parameter cache is bounded.  After any sequence of
\* intercepted requests neither cache holds more than MAX_TOOL_CACHE_SIZE
\* entries.
C27_CacheBounded ==
    /\ Len(toolParametersCache) <= MAX_TOOL_CACHE_SIZE
    /\ Len(state.toolParameters) <= MAX_TOOL_CACHE_SIZE

\* The step just taken was a model selection.
IsSelect == outcome.variant = "select"

\* The provider is one of the two disallowed ones, in any letter case and
\* also as part of a longer provider id.
Disallowed(providerID) ==
    \E k \in DOMAIN providerID :
        providerID[k] \in {"github-copilot", "anthropic", "Anthropic"}

\* The fallback candidates: the providers of the priority list that are
\* authenticated, in the order of the list.
RECURSIVE FallbackCandidates(_, _)
FallbackCandidates(i, providers) ==
    IF i > Len(PROVIDER_PRIORITY) THEN << >>
    ELSE (IF PROVIDER_PRIORITY[i] \in providers
          THEN << [source |-> "fallback",
                   modelInfo |-> [providerID |-> PROVIDER_PRIORITY[i],
                                  modelID |-> FALLBACK_MODELS(PROVIDER_PRIORITY[i])]] >>
          ELSE << >>) \o FallbackCandidates(i + 1, providers)

\* The candidates of one selection, in the order they are to be tried.
Candidates(currentModel, configModel, providers) ==
    (IF Len(configModel) = 2
     THEN << [source |-> "config",
              modelInfo |-> [providerID |-> configModel[1],
                             modelID |-> configModel[2]]] >>
     ELSE << >>)
    \o (IF currentModel # NoModel /\ ~Disallowed(currentModel.providerID)
        THEN << [source |-> "user-model", modelInfo |-> currentModel] >>
        ELSE << >>)
    \o FallbackCandidates(1, providers)

\* C28: model selection returns the first candidate that loads, the
\* candidates being the configured model, then the current model of the
\* session unless its provider is disallowed, then the fallback models of
\* the authenticated providers in the priority order; it fails when no
\* candidate loads; and a model of a disallowed provider is never returned
\* as the session's current model.
C28_FirstLoadingCandidate ==
    IsSelect =>
        LET candidates == Candidates(outcome.currentModel, outcome.configModel,
                                     outcome.providers)
            loading == {i \in DOMAIN candidates :
                            << candidates[i].modelInfo.providerID,
                               candidates[i].modelInfo.modelID >> \in outcome.loads}
        IN  IF loading = {} THEN ~outcome.result.ok
            ELSE LET first == CHOOSE i \in loading : \A j \in loading : i <= j
                 IN  /\ outcome.result.ok
                     /\ outcome.result.source = candidates[first].source
                     /\ outcome.result.modelInfo = candidates[first].modelInfo
                     /\ outcome.result.source = "user-model"
                            => ~Disallowed(outcome.result.modelInfo.providerID)

\* The configured model did not load, the current model is of a disallowed
\* provider and would have loaded, and the second authenticated provider of
\* the priority list gave the model.
C28_Witness ==
    /\ IsSelect
    /\ Len(outcome.configModel) = 2
    /\ outcome.currentModel # NoModel
    /\ Disallowed(outcome.currentModel.providerID)
    /\ << outcome.currentModel.providerID, outcome.currentModel.modelID >>
           \in outcome.loads
    /\ outcome.result.ok
    /\ outcome.result.source = "fallback"
    /\ outcome.result.modelInfo.providerID = << "opencode" >>
    /\ << "anthropic" >> \in outcome.providers

\* C29: idle-triggered analysis is fire-and-forget.  The event hook returns
\* with the pass no further than started: nothing is written and nothing is
\* thrown to the host, whether the session is analysed or not.  A pass
\* writes the union of what it read and what it decided whenever its
\* decision arrives, whatever the session's transcript and stored set have
\* become since it began; and a pass that fails ends in its own catch
\* block, which hands nothing on but the log entry.
C29_IdleIsFireAndForget ==
    [][/\ \A s \in Sessions : \A lookupOk \in BOOLEAN :
              IdleEvent(s, lookupOk)
                  => /\ outcome' = Nothing /\ store' = store
                     /\ \/ passes' = passes
                        \/ passes' = passes (+) SetToBag({NewRun(s, FailedOpen(s, lookupOk))})
       /\ \A r \in Running :
              (r.pc = "analyse" /\ outcome = Nothing)
                  => /\ ENABLED RunDecide(r, {})
                     /\ ENABLED RunDecideFail(r)
       /\ outcome'.variant = "write"
              => store'[outcome'.sid] = outcome'.already \cup outcome'.expanded
       /\ outcome'.variant = "failed"
              => store' = store /\ BagCardinality(passes') < BagCardinality(passes)
      ]_vars

\* A late pass wrote: the stored set of its session had changed since the
\* pass read it, and a later idle event had started another pass on the
\* session, which is still running.
C29_Witness ==
    /\ outcome.variant = "write"
    /\ outcome.newly # {}
    /\ outcome.before # outcome.already
    /\ \E r \in Running : r.sid = outcome.sid /\ r.pc \in {"fetch", "read", "analyse"}

\* C30: prune state is restored on first access.  For a session with a
\* persisted record, every caller whose restore call has returned finds
\* the persisted prunedIds in memory, the caller included that touched the
\* session while another caller's load from storage was still in flight.
C30_RestoredCallersSeePersisted ==
    (outcome.variant = "restored" /\ loadSessionState(outcome.sid).found)
        => \A id \in Range(loadSessionState(outcome.sid).prunedIds) :
               id \in Range(outcome.prunedIds)

\* The normalized ids of the calls of a transcript.
IdsOf(parts) == Range(toolCallIds(parts))

\* The step just taken was an analysis that reached the decision call.
IsAnalysed == outcome.variant = "analysed"

\* The returned ids, lowercased.
Returned31 == {toLowerCase(id) : id \in outcome.decision}

\* C31: the batch-expanded set is exactly the lowercased ids the decision
\* returned plus, for each returned id that is a batch parent, all of that
\* parent's recorded children, and nothing else.  The set is given by the
\* decision and the batch relations alone, so the same inputs always give
\* the same set.
C31_ExpansionIsExact ==
    IsAnalysed
        => \A id \in IdsOf(outcome.parts) \cup Returned31 \cup outcome.expanded :
               id \in outcome.expanded
                   <=> \/ id \in Returned31
                       \/ \E b \in Returned31 \cap DOMAIN outcome.children :
                              id \in Range(outcome.children[b])

\* A returned batch parent brought its children in, while another batch of
\* the transcript, not returned, kept its child out.
C31_Witness ==
    /\ IsAnalysed
    /\ \E b \in Returned31 \cap DOMAIN outcome.children :
           /\ b \notin outcome.decision
           /\ Range(outcome.children[b]) # {}
           /\ Range(outcome.children[b]) \cap Returned31 = {}
    /\ \E b \in DOMAIN outcome.children \ Returned31 :
           /\ Range(outcome.children[b]) # {}
           /\ Range(outcome.children[b]) \cap outcome.expanded = {}

\* The tool calls of a transcript, in emission order.
CallsOf(parts) == SelectSeq(parts, LAMBDA p : p.type = "tool" /\ p.callID # NoId)

\* Call i of the calls is a prefixed call that is no batch tool.
IsPrefixedCall(calls, i) ==
    startsWithPrt(toLowerCase(calls[i].callID)) /\ calls[i].tool # "batch"

\* Call i follows the batch call j with nothing but prefixed calls between.
InGroupOf(calls, i, j) ==
    /\ j < i
    /\ calls[j].tool = "batch"
    /\ \A k \in (j + 1) .. i : IsPrefixedCall(calls, k)

\* C34: batch groups follow emission order.  A call of the batch tool opens
\* a group, each following prefixed id is a child of the open group, and
\* the first following id without the prefix closes it: a prefixed id after
\* a closing id, or before any batch call, is a child of no batch, and
\* every child has exactly one batch parent.
C34_GroupsFollowEmissionOrder ==
    IsAnalysed
        => LET calls == CallsOf(outcome.parts)
               ch == outcome.children
           IN  /\ DOMAIN ch = {toLowerCase(calls[j].callID) :
                                  j \in {k \in DOMAIN calls : calls[k].tool = "batch"}}
               /\ \A i, j \in DOMAIN calls :
                      calls[j].tool = "batch"
                          => (toLowerCase(calls[i].callID)
                                  \in Range(ch[toLowerCase(calls[j].callID)])
                              <=> InGroupOf(calls, i, j))
               /\ \A b1, b2 \in DOMAIN ch :
                      b1 # b2 => Range(ch[b1]) \cap Range(ch[b2]) = {}

\* A transcript with a child of a batch, then a closing id, then a prefixed
\* id that is a child of no batch.
C34_Witness ==
    /\ IsAnalysed
    /\ LET calls == CallsOf(outcome.parts)
       IN  \E j, i, c, o \in DOMAIN calls :
               /\ InGroupOf(calls, i, j)
               /\ i < c /\ c < o
               /\ ~IsPrefixedCall(calls, c) /\ calls[c].tool # "batch"
               /\ IsPrefixedCall(calls, o)
               /\ \A b \in DOMAIN outcome.children :
                      toLowerCase(calls[o].callID) \notin Range(outcome.children[b])

\* The normalized ids of the calls of a transcript to protected tools.
ProtectedIdsOf(parts) ==
    {toLowerCase(c.callID) : c \in {x \in Range(CallsOf(parts)) : x.tool \in protectedTools}}

\* The ids the pass offered to the decision call (none when it gave up for
\* want of candidates).
Offered == IF IsAnalysed THEN Range(outcome.candidates) ELSE {}

\* C35: the candidate ids handed to the decision call are exactly the tool
\* call ids observed in the transcript, minus the ids already in the
\* session's prune set, minus the ids of calls to protected tools.
C35_CandidatesAreObservedMinusPrunedMinusProtected ==
    outcome.variant \in {"analysed", "no-candidates"}
        => /\ Offered = (IdsOf(outcome.parts) \ outcome.already)
                            \ ProtectedIdsOf(outcome.parts)
           /\ Offered \cap outcome.already = {}
           /\ \A id \in Offered : toolMetadata(outcome.parts, id) \notin protectedTools

\* Candidates were offered from a transcript that also has an id already
\* pruned and a call to a protected tool.
C35_Witness ==
    /\ IsAnalysed
    /\ IdsOf(outcome.parts) \cap outcome.already # {}
    /\ ProtectedIdsOf(outcome.parts) # {}
    /\ Offered # {}

\* C36: every id an analysis pass adds to the prune set was a candidate of
\* the pass or a recorded child of a returned batch parent; a returned id
\* that was not among the candidates offered is not stored.
C36_OnlyCandidatesAreStored ==
    IsAnalysed
        => \A id \in outcome.final \ outcome.already :
               \/ id \in Range(outcome.candidates)
               \/ \E b \in {toLowerCase(d) : d \in outcome.decision}
                               \cap DOMAIN outcome.children :
                      id \in Range(outcome.children[b])

\* The ids of the transcript a pass of session s holds that are neither in
\* the given stored set nor calls to protected tools.
Redoable(s, n, stored) ==
    {id \in IdsOf(PartsOf(s, n)) \ stored :
        toolMetadata(PartsOf(s, n), id) \notin protectedTools}

\* The ids the last write dropped from the stored set of its session.
LostIds == IF IsWrite THEN outcome.before \ store[outcome.sid] ELSE {}

\* C37: redoing a lost decision is possible.  An id whose pruning a racing
\* write has overwritten is in no stored set any more; a pass that reads
\* the stored set after that has it among its candidates again, as long as
\* it is in the transcript and its tool is not protected, goes on to the
\* decision call, and can store the id once more.
C37_LostDecisionCanBeRedone ==
    [][\A r \in Running :
           (RunRead(r) /\ Redoable(r.sid, r.n, store[r.sid]) # {})
               => /\ outcome' = Nothing
                  /\ \E next \in BagToSet(passes') :
                         /\ next = [r EXCEPT !.pc = "analyse", !.already = store[r.sid]]
                         /\ Redoable(r.sid, r.n, store[r.sid])
                                \subseteq Range(prunableToolCallIds(
                                              PartsOf(next.sid, next.n), next.already))
                         /\ \A id \in Redoable(r.sid, r.n, store[r.sid]) :
                                id \in allPrunedIds(next.already,
                                           expandedPrunedIds({id}, passChildren(next)))
      ]_vars

\* A racing write has just dropped an id that is still in the transcript
\* and not protected, while the next pass on the session has yet to read.
C37_Witness ==
    /\ IsWrite
    /\ LostIds \cap Redoable(outcome.sid, nmsgs[outcome.sid], store[outcome.sid]) # {}
    /\ \E r \in Running : r.sid = outcome.sid /\ r.pc \in {"fetch", "read"}

\* C38: when skipNextIdle is set at the moment a session-idle event arrives
\* for a session that is not a subagent, no analysis pass is run for that
\* event; when it is clear, the idle event starts a pass.
C38_SkipNextIdleSuppressesThePass ==
    [][\A s \in Sessions : \A lookupOk \in BOOLEAN :
           (IdleEvent(s, lookupOk) /\ ~isSubagentSession(s, lookupOk))
               => IF toolTracker.skipNextIdle
                  THEN passes' = passes
                  ELSE passes' = passes (+) SetToBag({NewRun(s, FailedOpen(s, lookupOk))})
      ]_vars

\* The step just taken was a request through one of the fetch wrappers.
IsWrapped == outcome.variant = "wrapped"

\* C32: the core wraps the transport and never replaces it.  For every
\* intercepted request the wrapper calls the underlying fetch exactly once,
\* the body it passes is the original string unless at least one tool
\* result was replaced, and a body that cannot be parsed or an error inside
\* the pruning logic results in the request being forwarded unchanged.
C32_WrapsAndNeverReplaces ==
    IsWrapped
        => /\ outcome.called = 1
           /\ outcome.replaced = 0 => outcome.body = outcome.orig
           /\ (outcome.threw \/ outcome.orig.type # "string"
               \/ outcome.orig.json = Unparsable)
                  => outcome.called = 1 /\ outcome.body = outcome.orig

\* The tool results of a list of chat entries: role=tool entries and the
\* tool_result blocks of user entries, each with its id and what it shows.
ChatResults(items) ==
    {<< items[i].tool_call_id, items[i].content >> :
         i \in {j \in DOMAIN items : items[j].role = "tool"}}
    \cup UNION {{<< b.tool_use_id, b.content >> :
                    b \in {x \in Range(items[i].parts) : x.type = "tool_result"}} :
                i \in {j \in DOMAIN items : "parts" \in DOMAIN items[j]}}

\* The function_call_output items of body.input.
InputResults(items) ==
    {<< items[i].call_id, items[i].content >> :
         i \in {j \in DOMAIN items : items[j].type = "function_call_output"}}

\* The functionResponse parts of body.contents.
ContentsResults(items) ==
    UNION {{<< p.functionResponse.id, p.functionResponse.response >> :
               p \in {x \in Range(items[i].parts) : "functionResponse" \in DOMAIN x}} :
           i \in DOMAIN items}

\* Every tool result of a request body, whatever its wire format.
ResultsOf(json) ==
    (IF isMessageArray(json) THEN ChatResults(json.messages.items) ELSE {})
    \cup (IF "input" \in DOMAIN json THEN InputResults(json.input.items) ELSE {})
    \cup (IF "contents" \in DOMAIN json THEN ContentsResults(json.contents.items) ELSE {})

\* C33: pruning is applied in every wire format whose tool results are
\* tracked.  A tool result whose id is in the prune set is replaced by the
\* placeholder in the outbound request, be it a role=tool entry, an inline
\* tool_result block of a user entry, a functionResponse part of
\* body.contents or a function_call_output item of body.input.
C33_PrunedInEveryWireFormat ==
    (/\ IsWrapped
     /\ outcome.wrapper \in {"pruning-fetch", "fetch"}
     /\ outcome.called = 1
     /\ outcome.body.type = "string"
     /\ outcome.body.json # Unparsable)
        => \A res \in ResultsOf(outcome.body.json) :
               res[1] \in outcome.pruned => res[2] = Placeholder

\* No element occurs twice in the list.
NoDuplicates(list) == \A i, j \in DOMAIN list : list[i] = list[j] => i = j

\* C39: after any sequence of successful squash invocations, squashes over
\* overlapping or identical ranges included, each tool call id occurs at
\* most once in the pruned tool id list and each message id at most once
\* in the pruned message id list, and the squash summaries recorded
\* earlier are still there, unchanged.
C39_SquashListsHaveNoDuplicates ==
    /\ NoDuplicates(prune.toolIds)
    /\ NoDuplicates(prune.messageIds)
    /\ outcome.variant = "squash"
           => IsPrefix(outcome.before.squashSummaries, prune.squashSummaries)

\* The summaries half of C39 on its own: a squash only appends.
C39_SummariesAreKept ==
    outcome.variant = "squash"
        => /\ IsPrefix(outcome.before.squashSummaries, prune.squashSummaries)
           /\ Len(prune.squashSummaries) = Len(outcome.before.squashSummaries) + 1

\* The load of a session's record, while it is in flight.
LoadOf(s) == [kind |-> "load", sid |-> s]

\* The step just taken was the end of a load from storage.
IsLoaded == outcome.variant = "restored" /\ outcome.loaded

\* C40: the persisted state of a session is loaded from storage at most
\* once per process, and a restore never overwrites prune ids or stats
\* that were set in memory for the session before the load completed; ids
\* that are only in the persisted record are therefore not merged into a
\* set written in memory during the load.
C40_LoadedOnceAndNeverOverwrites ==
    [][/\ state.restoredSessions \subseteq state'.restoredSessions
       /\ \A s \in Hosted :
              CopiesIn(LoadOf(s), pending') > CopiesIn(LoadOf(s), pending)
                  => /\ s \notin state.restoredSessions
                     /\ CopiesIn(LoadOf(s), pending') = 1
       /\ (outcome'.variant = "restored" /\ outcome'.loaded)
              => LET s == outcome'.sid
                 IN  /\ mapHas(state.prunedIds, s) => state'.prunedIds = state.prunedIds
                     /\ mapHas(state.stats, s) => state'.stats = state.stats
                     /\ \A x \in Hosted \ {s} :
                            /\ state'.prunedIds.value[x] = state.prunedIds.value[x]
                            /\ state'.stats.value[x] = state.stats.value[x]
      ]_vars

\* A load has just completed for a session whose ids and stats were set in
\* memory while it was in flight: memory still holds what was set, without
\* an id of the persisted record.
C40_Witness ==
    /\ IsLoaded
    /\ loadSessionState(outcome.sid).found
    /\ outcome.prunedIds # << >>
    /\ outcome.stats = "written"
    /\ \E id \in Range(loadSessionState(outcome.sid).prunedIds) :
           id \notin Range(outcome.prunedIds)
====
